---------------------------- MODULE Spec2Model ----------------------------
(***************************************************************************)
(* A model of the VT220 terminal emulation core of qflexprop               *)
(* (src/term/vt220.cpp): the byte-wise state machine vt220::putch, the     *)
(* screen buffer with its scrollback (m_screen, m_backlog), the cursor and *)
(* mode state, the UTF-8 decoder, and term_reset.                          *)
(*                                                                         *)
(* The terminal object is handled as a record t whose fields carry the     *)
(* names of the members of class vt220.  Every member function is an       *)
(* operator from a record to a record, written in the order of the C++     *)
(* statements.  Rows and columns are 0-based as in the source; the         *)
(* sequences that hold them are 1-based, hence the "+ 1" in every index.   *)
(***************************************************************************)
EXTENDS Integers, Sequences, FiniteSets, TLC

(***************************************************************************)
(* Bounds of the model.                                                    *)
(***************************************************************************)
\* columns and rows of the terminal the model constructs (the source: 80 x 25)
Cols == 3
Rows == 3
\* m_backlog_max of the model (the source: 10000)
BacklogMax == 2
\* write() calls per behaviour
MaxWrites == 8
\* write() calls per behaviour where the choice of writes is wide
MaxSteps == 3
\* write() calls before and after the reset of the reset specification
MaxPrior == 2
MaxAfter == 2
\* bytes of one write of the decoder specification
MaxStream == 4
\* largest numeric parameter of a control sequence the specifications send
MaxParam == 4
\* writes of a scroll region scenario
MaxRegion == 6
\* resize calls of a scenario beyond its MaxSteps writes
MaxResize == 2

(***************************************************************************)
(* Byte values (vt220.h names them; the values are those of ISO 6429).     *)
(***************************************************************************)
NUL == 0
BEL == 7
BS  == 8
HT  == 9
LF  == 10
VT  == 11
FF  == 12
CR  == 13
SO  == 14
SI  == 15
CAN == 24
SUB == 26
ESC == 27
DEL == 127
IND == 132
NEL == 133
HTS == 136
RI  == 141
SS2 == 142
SS3 == 143
DCS == 144
SPA == 150
EPA == 151
SOS == 152
DECID == 154
CSI == 155
ST  == 156
OSC == 157
PM  == 158
APC == 159

\* the replacement code point, and the "no code point" value of the decoder:
\* the all-ones word 0xffffffff, which no decoded value equals, written as
\* the 32 bit integer of the same bits
UC_REPLACE == 65533
UC_INVALID == -1
\* the masks of the C0 controls that are acted on, as the sets of their bits
\* (the Linux console values 0x0d00ff81 and 0x0800f501)
CTRL_ACTION == {0, 7, 8, 9, 10, 11, 12, 13, 14, 15, 24, 26, 27}
CTRL_ALWAYS == {0, 8, 10, 12, 13, 14, 15, 27}

\* colour indexes
C_BLK == 0
C_WHT == 7

\* the G-set indexes vt220.h gives the first two character maps
MAP_LATIN1  == 0
MAP_DECGR   == 1
MAP_IBMPC   == 2

\* size of the tab stop bit array
TabBits == 256

\* "T x = v; ..." of the code: v is computed once and the rest reads x
Let(v, In(_)) == In(v)

Min(a, b) == IF a < b THEN a ELSE b
Max(a, b) == IF a > b THEN a ELSE b
\* qBound(min, val, max) of Qt: qMax(min, qMin(max, val))
qBound(lo, v, hi) == Max(lo, Min(hi, v))

VARIABLES
    m_width, m_height, m_top, m_bottom,     \* size and scroll region
    m_screen, m_backlog,                    \* visible page and scrollback
    m_cursor, m_cursor_saved,               \* [x, newx, y, on, phase]
    m_att, m_att_saved, m_def,              \* current, saved, default vtAttr
    m_state, m_ques, m_csi_args, m_string,  \* parser
    m_mode,                                 \* the boolean mode flags
    m_gmaps, m_trans, m_shift,              \* character sets
    m_utf,                                  \* [mode, more, code, code_min]
    m_tabstop, m_pal, m_misc,               \* tab stops, palette, the rest
    term_response,                          \* replies emitted by the last write
    decoded,                                \* code points yielded by the last write
    oob,                                    \* an access outside a container happened
    junk,                                   \* the value such an access reads
    evicted,                                \* rows scrolled off a full-height region
    data, nwrites,                          \* the last write()'s bytes; calls so far
    inflight,                               \* bytes of a character still to be written
    fresh, phase,                           \* reference engine of the reset check
    call                                    \* the last call on the object: [op, w, h]

tvars == << m_width, m_height, m_top, m_bottom, m_screen, m_backlog, m_cursor,
            m_cursor_saved, m_att, m_att_saved, m_def, m_state, m_ques,
            m_csi_args, m_string, m_mode, m_gmaps, m_trans, m_shift, m_utf,
            m_tabstop, m_pal, m_misc, term_response, decoded, oob, junk,
            evicted >>
vars == << tvars, data, nwrites, inflight, fresh, phase, call >>

(***************************************************************************)
(* vtAttr and vtLine (vt220.h).                                            *)
(***************************************************************************)
\* a vtAttr with the display fields term_reset gives m_def
vtAttr(code) ==
    [code |-> code, mark |-> 0, width |-> 1, fg |-> C_WHT, bg |-> C_BLK,
     charset |-> 0, gl |-> MAP_LATIN1, gr |-> MAP_DECGR, flags |-> {}]

\* att.set_all(other): att takes every field of other
set_all(att, other) == other

\* "vtAttr space = att; space.set_code(32); space.set_mark(0);"
Space(att) == [att EXCEPT !.code = 32, !.mark = 0]

\* vtLine(width, att): width cells, single width, single height; decdhl is
\* "single", "top" or "bottom"
vtLine(width, att) ==
    [cells |-> [x \in 1..width |-> att], decdwl |-> FALSE, decdhl |-> "single"]

\* QVector::resize of a row: truncate, or grow by default-constructed cells
LineResize(line, width) ==
    [line EXCEPT !.cells = [x \in 1..width |->
        IF x <= Len(line.cells) THEN line.cells[x] ELSE vtAttr(0)]]

\* TRUE; it makes the evaluation compute t before a loop goes on with it
Done(t) == t.oob \in BOOLEAN

InScreen(t, x, y) == x >= 0 /\ x < t.m_width /\ y >= 0 /\ y < t.m_height
\* what really is allocated: an index outside it is undefined behaviour
Allocated(t, x, y) ==
    /\ y >= 0 /\ y < Len(t.m_screen)
    /\ x >= 0 /\ x < Len(t.m_screen[y + 1].cells)

(***************************************************************************)
(* Cursor and cell primitives.                                             *)
(***************************************************************************)
set_cursor(t, on) ==
    IF t.m_cursor.y < 0 \/ t.m_cursor.y >= t.m_height THEN t
    ELSE IF t.m_cursor.newx < 0 \/ t.m_cursor.newx >= t.m_width THEN t
    ELSE [t EXCEPT !.m_cursor.on = (on /\ t.m_mode.deccm)]

set_newx(t, newx) ==
    Let([set_cursor(t, FALSE) EXCEPT !.m_cursor.newx = newx], LAMBDA t2 :
        IF t2.m_cursor.y < 0 \/ t2.m_cursor.y >= t2.m_height THEN t2
        ELSE IF newx < 0 \/ newx >= t2.m_width THEN t2
        ELSE set_cursor(t2, t2.m_cursor.on))

\* m_screen[y][x] read; outside the allocation the read yields junk
cell_at(t, x, y) ==
    IF Allocated(t, x, y) THEN t.m_screen[y + 1].cells[x + 1]
    ELSE Space(vtAttr(t.junk))

\* m_screen[y][x] = pa without a range check (zap, the mark branch of putch)
poke(t, x, y, pa) ==
    IF Allocated(t, x, y)
    THEN [t EXCEPT !.m_screen[y + 1].cells[x + 1] = pa]
    ELSE [t EXCEPT !.oob = TRUE]

outch(t, x, y, pa) ==
    IF x < 0 \/ x >= t.m_width THEN t
    ELSE IF y < 0 \/ y >= t.m_height THEN t
    ELSE poke(t, x, y, pa)

\* the cells zap visits: the first row from x0 to x1, later rows whole
ZapCells(t, x0, y0, x1, y1) ==
    { c \in ((Min(x0, 0))..(Max(x1, t.m_width - 1))) \X (y0..y1) :
        IF c[2] = y0 THEN c[1] >= x0 /\ c[1] <= x1
        ELSE c[1] >= 0 /\ c[1] <= t.m_width - 1 }

zap(t, x0, y0, x1, y1, code) ==
    LET space == [t.m_att EXCEPT !.code = code, !.mark = 0]
        cs == ZapCells(t, x0, y0, x1, y1)
        bad == \E c \in cs : ~Allocated(t, c[1], c[2])
    IN  [t EXCEPT
           !.m_screen = [r \in 1..Len(t.m_screen) |->
               [t.m_screen[r] EXCEPT !.cells = [k \in 1..Len(t.m_screen[r].cells) |->
                   IF <<k - 1, r - 1>> \in cs THEN space
                   ELSE t.m_screen[r].cells[k]]]],
           !.oob = t.oob \/ bad]

add_backlog_drop_newest(t, line) ==
    LET b == Append(t.m_backlog, line)
    IN  [t EXCEPT !.m_backlog =
            IF Len(b) > t.m_misc.backlog_max THEN SubSeq(b, 1, Len(b) - 1) ELSE b]

add_backlog(t, line) ==
    LET b == Append(t.m_backlog, line)
    IN  [t EXCEPT !.m_backlog =
            IF Len(b) > t.m_misc.backlog_max THEN Tail(b) ELSE b]

\* the row of blanks a scroll brings in
BlankLine(t) == vtLine(t.m_width, Space(t.m_att))

\* a scroll of rows top..bottom-1 indexes m_screen outside its rows
ScrollOutside(t) ==
    LET n == Len(t.m_screen)
    IN  \/ t.m_top < 0 \/ t.m_top >= n
        \/ t.m_bottom - 1 < 0 \/ t.m_bottom - 1 >= n

vt_scroll_dn(t) ==
    IF ScrollOutside(t) THEN [t EXCEPT !.oob = TRUE]
    ELSE [t EXCEPT !.m_screen = [r \in 1..Len(t.m_screen) |->
            IF r - 1 = t.m_top THEN BlankLine(t)
            ELSE IF r - 1 > t.m_top /\ r - 1 <= t.m_bottom - 1 THEN t.m_screen[r - 1]
            ELSE t.m_screen[r]]]

vt_scroll_up_any_region(t) ==
    Let(IF t.m_screen # << >>
        THEN [add_backlog(t, t.m_screen[1]) EXCEPT
                 !.evicted = Append(@, t.m_screen[1])]
        ELSE t, LAMBDA t1 :
        IF ScrollOutside(t) THEN [t1 EXCEPT !.oob = TRUE]
        ELSE [t1 EXCEPT !.m_screen = [r \in 1..Len(t.m_screen) |->
                IF r - 1 = t.m_bottom - 1 THEN BlankLine(t)
                ELSE IF r - 1 >= t.m_top /\ r - 1 < t.m_bottom - 1
                     THEN t.m_screen[r + 1]
                ELSE t.m_screen[r]]])

vt_scroll_up(t) ==
    Let(IF t.m_top = 0 /\ t.m_height = t.m_bottom /\ t.m_screen # << >>
        THEN [add_backlog(t, t.m_screen[1]) EXCEPT
                 !.evicted = Append(@, t.m_screen[1])]
        ELSE t, LAMBDA t1 :
        IF ScrollOutside(t) THEN [t1 EXCEPT !.oob = TRUE]
        ELSE [t1 EXCEPT !.m_screen = [r \in 1..Len(t.m_screen) |->
                IF r - 1 = t.m_bottom - 1 THEN BlankLine(t)
                ELSE IF r - 1 >= t.m_top /\ r - 1 < t.m_bottom - 1
                     THEN t.m_screen[r + 1]
                ELSE t.m_screen[r]]])

(***************************************************************************)
(* C0 controls and the index operations.                                   *)
(***************************************************************************)
vt_CR(t) ==
    Let(set_newx(set_cursor(t, FALSE), 0), LAMBDA t1 :
        set_cursor([t1 EXCEPT !.m_cursor.x = t1.m_cursor.newx], t.m_cursor.on))

vt_LF(t) ==
    Let(set_cursor(t, FALSE), LAMBDA t1 :
        set_cursor(IF t1.m_cursor.y + 1 >= t1.m_bottom THEN vt_scroll_up(t1)
                   ELSE IF t1.m_cursor.y < t1.m_height - 1
                        THEN [t1 EXCEPT !.m_cursor.y = @ + 1]
                        ELSE t1,
                   t.m_cursor.on))

vt_BS(t) ==
    Let(set_cursor(t, FALSE), LAMBDA t1 :
    Let([t1 EXCEPT !.m_cursor.x = t1.m_cursor.newx], LAMBDA t2 :
    Let(IF t2.m_cursor.x > 0 THEN set_newx(t2, t2.m_cursor.x - 1) ELSE t2, LAMBDA t3 :
        set_cursor([t3 EXCEPT !.m_cursor.x = t3.m_cursor.newx], t.m_cursor.on))))

vt_RI(t) ==
    Let(set_cursor(t, FALSE), LAMBDA t1 :
        set_cursor(IF t1.m_cursor.y <= t1.m_top
                   THEN [vt_scroll_dn(t1) EXCEPT !.m_cursor.y = t1.m_top]
                   ELSE IF t1.m_cursor.y > 0 THEN [t1 EXCEPT !.m_cursor.y = @ - 1]
                   ELSE t1,
                   t.m_cursor.on))

vt_IND(t) ==
    Let(set_cursor(t, FALSE), LAMBDA t1 :
        set_cursor(IF t1.m_cursor.y + 1 >= t1.m_bottom
                   THEN [vt_scroll_up(t1) EXCEPT !.m_cursor.y = t1.m_bottom - 1]
                   ELSE IF t1.m_cursor.y < t1.m_height - 1
                        THEN [t1 EXCEPT !.m_cursor.y = @ + 1]
                        ELSE t1,
                   t.m_cursor.on))

vt_NEL(t) == vt_LF(vt_CR(t))

vt_HTS(t) ==
    IF t.m_cursor.newx < TabBits
    THEN [t EXCEPT !.m_tabstop = @ \cup {t.m_cursor.newx}]
    ELSE t

vt_VT(t) ==
    Let(set_cursor(t, FALSE), LAMBDA t1 :
        set_cursor(IF t1.m_cursor.y = t1.m_top THEN vt_scroll_dn(t1)
                   ELSE IF t1.m_cursor.y > 0 THEN [t1 EXCEPT !.m_cursor.y = @ - 1]
                   ELSE t1,
                   t.m_cursor.on))

RECURSIVE ScrollUpTimes(_, _)
ScrollUpTimes(t, n) == IF n <= 0 \/ ~Done(t) THEN t ELSE ScrollUpTimes(vt_scroll_up(t), n - 1)

vt_FF(t) ==
    Let(ScrollUpTimes(set_cursor(t, FALSE), t.m_height), LAMBDA t1 :
        set_cursor([t1 EXCEPT !.m_cursor.y = t1.m_bottom - 1], t.m_cursor.on))

\* the loop of vt_TAB: blank the cell, step, stop on a tab stop
RECURSIVE TabLoop(_)
TabLoop(t) ==
    IF Done(t) /\ t.m_cursor.newx < t.m_width - 1
    THEN Let([outch(t, t.m_cursor.newx, t.m_cursor.y, Space(t.m_att))
                 EXCEPT !.m_cursor.newx = @ + 1], LAMBDA t2 :
             IF t2.m_cursor.newx >= TabBits \/ t2.m_cursor.newx \in t2.m_tabstop
             THEN t2 ELSE TabLoop(t2))
    ELSE t

vt_TAB(t) ==
    Let(IF t.m_cursor.newx >= t.m_width
        THEN IF t.m_mode.decawm THEN vt_LF(vt_CR(t))
             ELSE [t EXCEPT !.m_cursor.newx = t.m_width]
        ELSE t, LAMBDA t1 :
        IF t1.m_cursor.newx >= t1.m_width THEN t1
        ELSE Let(TabLoop([t1 EXCEPT !.m_cursor.x = t1.m_cursor.newx]), LAMBDA t2 :
                 set_newx(t2, t2.m_cursor.newx)))

(***************************************************************************)
(* Cursor positioning.                                                     *)
(***************************************************************************)
vt_CUP_noclamp(t, x, y) ==
    Let(set_newx(t, x), LAMBDA t1 :
        [t1 EXCEPT !.m_cursor.x = t1.m_cursor.newx, !.m_cursor.y = y])

vt_CUP(t, x, y) ==
    Let(IF x < 0 THEN [set_newx(t, 0) EXCEPT !.m_cursor.x = 0]
        ELSE Let(IF x >= t.m_width THEN set_newx(t, t.m_width - 1)
                 ELSE set_newx(t, x), LAMBDA u :
                 [u EXCEPT !.m_cursor.x = u.m_cursor.newx]), LAMBDA t1 :
        LET miny == IF t1.m_mode.decom THEN t1.m_top ELSE 0
            maxy == IF t1.m_mode.decom THEN t1.m_bottom - 1 ELSE t1.m_height - 1
        IN  [t1 EXCEPT !.m_cursor.y = qBound(miny, y, maxy)])

vt_CUU(t, n) ==
    LET y == t.m_cursor.y - n
        t1 == [t EXCEPT !.m_cursor.x = t.m_cursor.newx]
    IN  vt_CUP(t1, t1.m_cursor.x, y)

vt_CUD(t, n) ==
    LET y == t.m_cursor.y + n
        t1 == [t EXCEPT !.m_cursor.x = t.m_cursor.newx]
    IN  vt_CUP(t1, t1.m_cursor.x, y)

vt_CUF(t, n) == vt_CUP(t, t.m_cursor.newx + n, t.m_cursor.y)

vt_CUB(t, n) == vt_CUP(t, t.m_cursor.newx - n, t.m_cursor.y)

vt_CHA(t, n) == vt_CUP(t, n, t.m_cursor.y)

RECURSIVE vt_CNL(_, _)
vt_CNL(t, n) == IF n > 0 /\ Done(t) THEN vt_CNL(vt_NEL(t), n - 1) ELSE t

RECURSIVE vt_CPL(_, _)
vt_CPL(t, n) == IF n > 0 /\ Done(t) THEN vt_CPL(vt_RI(t), n - 1) ELSE t

RECURSIVE vt_CHT(_, _)
vt_CHT(t, n) == IF n > 0 /\ Done(t) THEN vt_CHT(vt_TAB(t), n - 1) ELSE t

\* vt_CUA without the origin mode test
vt_CUA_absolute(t, x, y) == vt_CUP(t, x, y)

vt_CUA(t, x, y) == vt_CUP(t, x, IF t.m_mode.decom THEN t.m_top + y ELSE y)

(***************************************************************************)
(* Erasing, inserting and deleting.                                        *)
(***************************************************************************)
vt_ED(t, n) ==
    LET t1 == [t EXCEPT !.m_cursor.x = t.m_cursor.newx]
        x == t1.m_cursor.x
        y == t1.m_cursor.y
    IN  CASE n = 0 -> zap(t1, x, y, t1.m_width - 1, t1.m_height - 1, 32)
          [] n = 1 -> zap(t1, 0, 0, x, y, 32)
          [] n = 2 -> zap(t1, 0, 0, t1.m_width - 1, t1.m_height - 1, 32)
          [] OTHER -> t1

vt_EL_from_next(t, n) ==
    LET t1 == [t EXCEPT !.m_cursor.x = t.m_cursor.newx]
        x == t1.m_cursor.x
        y == t1.m_cursor.y
    IN  CASE n = 0 -> zap(t1, x + 1, y, t1.m_width - 1, y, 32)
          [] n = 1 -> zap(t1, 0, y, x, y, 32)
          [] n = 2 -> zap(t1, 0, y, t1.m_width - 1, y, 32)
          [] OTHER -> t1

vt_EL(t, n) ==
    LET t1 == [t EXCEPT !.m_cursor.x = t.m_cursor.newx]
        x == t1.m_cursor.x
        y == t1.m_cursor.y
    IN  CASE n = 0 -> zap(t1, x, y, t1.m_width - 1, y, 32)
          [] n = 1 -> zap(t1, 0, y, x, y, 32)
          [] n = 2 -> zap(t1, 0, y, t1.m_width - 1, y, 32)
          [] OTHER -> t1

RECURSIVE ScrollDnTimes(_, _)
ScrollDnTimes(t, n) == IF n <= 0 \/ ~Done(t) THEN t ELSE ScrollDnTimes(vt_scroll_dn(t), n - 1)

vt_IL(t, n) ==
    LET top == t.m_top
        t1 == [t EXCEPT !.m_cursor.x = t.m_cursor.newx, !.m_top = t.m_cursor.y]
    IN  [ScrollDnTimes(t1, n) EXCEPT !.m_top = top]

vt_DL(t, n) ==
    LET top == t.m_top
        t1 == [t EXCEPT !.m_cursor.x = t.m_cursor.newx, !.m_top = t.m_cursor.y]
    IN  [ScrollUpTimes(t1, n) EXCEPT !.m_top = top]

\* one round of the loop of vt_ICH: shift right from the cursor, blank it
InsertOne(t) ==
    LET x0 == t.m_cursor.x
        y == t.m_cursor.y
        row == [x \in 0..(t.m_width - 1) |->
                  IF x > x0 THEN cell_at(t, x - 1, y)
                  ELSE IF x = x0 THEN Space(t.m_att)
                  ELSE cell_at(t, x, y)]
        bad == t.m_width - 1 > x0 /\ (y < 0 \/ y >= Len(t.m_screen) \/ x0 < 0)
    IN  IF y < 0 \/ y >= t.m_height \/ y >= Len(t.m_screen)
        THEN [t EXCEPT !.oob = t.oob \/ bad]
        ELSE [t EXCEPT !.m_screen[y + 1].cells = [k \in 1..Len(@) |->
                 IF k - 1 >= Max(x0, 0) /\ k - 1 < t.m_width THEN row[k - 1] ELSE @[k]],
                 !.oob = t.oob \/ bad]

RECURSIVE InsertTimes(_, _)
InsertTimes(t, n) == IF n <= 0 \/ ~Done(t) THEN t ELSE InsertTimes(InsertOne(t), n - 1)

vt_ICH(t, n) == InsertTimes([t EXCEPT !.m_cursor.x = t.m_cursor.newx], n)

\* one round of the loop of vt_DCH: shift left onto the cursor, blank the end
DeleteOne(t) ==
    LET x0 == t.m_cursor.x
        y == t.m_cursor.y
        row == [x \in 0..(t.m_width - 1) |->
                  IF x = t.m_width - 1 THEN Space(t.m_att)
                  ELSE IF x >= x0 THEN cell_at(t, x + 1, y)
                  ELSE cell_at(t, x, y)]
        bad == x0 < t.m_width - 1 /\ (y < 0 \/ y >= Len(t.m_screen))
    IN  IF y < 0 \/ y >= t.m_height \/ y >= Len(t.m_screen)
        THEN [t EXCEPT !.oob = t.oob \/ bad]
        ELSE [t EXCEPT !.m_screen[y + 1].cells = [k \in 1..Len(@) |->
                 IF k - 1 < t.m_width /\ (k - 1 >= x0 \/ k - 1 = t.m_width - 1)
                 THEN row[k - 1] ELSE @[k]],
                 !.oob = t.oob \/ bad]

RECURSIVE DeleteTimes(_, _)
DeleteTimes(t, n) == IF n <= 0 \/ ~Done(t) THEN t ELSE DeleteTimes(DeleteOne(t), n - 1)

vt_DCH(t, n) == DeleteTimes([t EXCEPT !.m_cursor.x = t.m_cursor.newx], n)

RECURSIVE EraseFrom(_, _, _)
EraseFrom(t, x, last) ==
    IF Done(t) /\ x < last /\ x < t.m_width
    THEN EraseFrom(outch(t, x, t.m_cursor.y, Space(t.m_att)), x + 1, last)
    ELSE t

vt_ECH(t, n) ==
    Let([t EXCEPT !.m_cursor.x = t.m_cursor.newx], LAMBDA t1 :
    Let(outch(t1, t1.m_width - 1, t1.m_cursor.y, Space(t1.m_att)), LAMBDA t2 :
        EraseFrom(t2, t2.m_cursor.x, t2.m_cursor.x + n)))

(***************************************************************************)
(* Character sets.  A character map is known by its name; m_gmaps holds    *)
(* the names designated to G0..G3 and m_trans the name in use.             *)
(***************************************************************************)
\* m_gmaps[i]; an index outside 0..3 reads whatever lies there
gmap_at(t, i) == IF i \in 0..3 THEN t.m_gmaps[i + 1] ELSE "junk"
gmap_bad(i) == i \notin 0..3

vt_LS(t, g) ==
    [t EXCEPT !.m_att.gl = g, !.m_att.charset = g,
              !.m_mode.dspctrl = (g # 0), !.m_trans = t.m_gmaps[g + 1]]

vt_LS0(t) == vt_LS(t, 0)
vt_LS1(t) == vt_LS(t, 1)
vt_LS2(t) == vt_LS(t, 2)
vt_LS3(t) == vt_LS(t, 3)

vt_LSR(t, g) ==
    [t EXCEPT !.m_att.gr = g, !.m_att.charset = g, !.m_mode.dspctrl = TRUE]

vt_SS(t, g) ==
    [t EXCEPT !.m_shift = t.m_att.charset, !.m_att.charset = g,
              !.m_trans = t.m_gmaps[g + 1], !.m_mode.dspctrl = TRUE]

vt_SS2(t) == vt_SS(t, 2)
vt_SS3(t) == vt_SS(t, 3)

select_map_vt200(ch) ==
    CASE ch = 48 -> "MAP_DECGR"
      [] ch = 65 -> "NRCS_BRITISH"
      [] ch = 66 -> "MAP_LATIN1"
      [] ch \in {67, 53} -> "NRCS_FINNISH"
      [] ch \in {69, 54, 96} -> "NRCS_NORWEGIAN_DANISH"
      [] ch \in {72, 55} -> "NRCS_SWEDISH"
      [] ch = 75 -> "NRCS_GERMAN"
      [] ch \in {81, 57} -> "NRCS_FRENCH_CANADIAN"
      [] ch \in {82, 102} -> "NRCS_FRENCH"
      [] ch = 85 -> "MAP_IBMPC"
      [] ch = 89 -> "NRCS_ITALIAN"
      [] ch = 90 -> "NRCS_SPANISH"
      [] ch = 52 -> "NRCS_DUTCH"
      [] ch = 37 -> "MAP_VT500"
      [] ch = 61 -> "NRCS_SWISS"
      [] OTHER -> "MAP_LATIN1"

select_map_vt500(ch) ==
    CASE ch = 62 -> "NRCS_GREEK"
      [] ch = 50 -> "NRCS_TURKISH"
      [] ch = 54 -> "NRCS_PORTUGESE"
      [] ch = 61 -> "NRCS_HEBREW"
      [] OTHER -> "MAP_INVALID"

\* cmapHash::value(ch, ch) of the named map, for the entries that differ
\* from the identity among the bytes the specifications send
Translate(map, ch) ==
    CASE map = "MAP_DECGR" /\ ch = 113 -> 9472
      [] map = "MAP_DECGR" /\ ch = 120 -> 9474
      [] map = "MAP_DECGR" /\ ch = 97 -> 9618
      [] map = "MAP_DECGR" /\ ch = 95 -> 32
      [] map = "NRCS_BRITISH" /\ ch = 35 -> 163
      [] map = "MAP_IBMPC" /\ ch = 127 -> 8962
      [] map = "MAP_USER" /\ ch = 65 -> 8208
      [] OTHER -> ch

(***************************************************************************)
(* Resizing.                                                               *)
(***************************************************************************)
\* "line.resize(width)" and the padding of the new cells with line[0]
WidenLine(line, width, old_width) ==
    Let(LineResize(line, width), LAMBDA r :
        IF width > old_width
        THEN [r EXCEPT !.cells = [x \in 1..width |->
                 IF x > old_width THEN Space(r.cells[1]) ELSE r.cells[x]]]
        ELSE r)

RECURSIVE TakeFirstToBacklog(_, _)
TakeFirstToBacklog(t, n) ==
    IF n <= 0 \/ t.m_screen = << >> \/ ~Done(t) THEN t
    ELSE TakeFirstToBacklog(
            [add_backlog(t, Head(t.m_screen)) EXCEPT !.m_screen = Tail(t.m_screen)],
            n - 1)

\* term_set_size without the loop over m_backlog
term_set_size_screen_only(t, w, h) ==
    Let(IF w <= 0 THEN t.m_misc.deccolm ELSE w, LAMBDA width :
    Let(IF h <= 0 THEN 25 ELSE h, LAMBDA height :
    Let([t EXCEPT
           !.m_screen = [r \in 1..Len(@) |-> WidenLine(@[r], width, t.m_width)]],
        LAMBDA t1 :
    Let(IF height < t1.m_height
        THEN TakeFirstToBacklog(t1, t1.m_height - height) ELSE t1, LAMBDA t2 :
    Let(LET n == Len(t2.m_backlog)
            k == IF height > t2.m_height
                 THEN Min(height - t2.m_height, Len(t2.m_backlog)) ELSE 0
        IN  [t2 EXCEPT
               !.m_screen = SubSeq(t2.m_backlog, n - k + 1, n) \o @,
               !.m_backlog = SubSeq(@, 1, n - k),
               !.m_height = @ + k], LAMBDA t3 :
        LET more == IF height > t3.m_height THEN height - t3.m_height ELSE 0
        IN  [t3 EXCEPT
               !.m_screen = @ \o [r \in 1..more |-> vtLine(width, t3.m_def)],
               !.m_misc.deccolm = width,
               !.m_width = width, !.m_height = height,
               !.m_top = 0, !.m_bottom = height])))))

term_set_size(t, w, h) ==
    Let(IF w <= 0 THEN t.m_misc.deccolm ELSE w, LAMBDA width :
    Let(IF h <= 0 THEN 25 ELSE h, LAMBDA height :
    Let([t EXCEPT
           !.m_screen = [r \in 1..Len(@) |-> WidenLine(@[r], width, t.m_width)],
           !.m_backlog = [r \in 1..Len(@) |-> WidenLine(@[r], width, t.m_width)]],
        LAMBDA t1 :
    Let(IF height < t1.m_height
        THEN TakeFirstToBacklog(t1, t1.m_height - height) ELSE t1, LAMBDA t2 :
    Let(LET n == Len(t2.m_backlog)
            k == IF height > t2.m_height
                 THEN Min(height - t2.m_height, Len(t2.m_backlog)) ELSE 0
        IN  [t2 EXCEPT
               !.m_screen = SubSeq(t2.m_backlog, n - k + 1, n) \o @,
               !.m_backlog = SubSeq(@, 1, n - k),
               !.m_height = @ + k], LAMBDA t3 :
        LET more == IF height > t3.m_height THEN height - t3.m_height ELSE 0
        IN  [t3 EXCEPT
               !.m_screen = @ \o [r \in 1..more |-> vtLine(width, t3.m_def)],
               !.m_misc.deccolm = width,
               !.m_width = width, !.m_height = height,
               !.m_top = 0, !.m_bottom = height])))))

term_set_columns(t, w) ==
    Let(term_set_size(t, IF w <= 0 THEN t.m_misc.deccolm ELSE w, t.m_height),
        LAMBDA t1 : set_newx(t1, t1.m_cursor.newx))

term_set_rows(t, h) ==
    IF h <= 0 THEN t
    ELSE Let(term_set_size(t, t.m_width, h),
             LAMBDA t1 : set_newx(t1, t1.m_cursor.newx))

(***************************************************************************)
(* Modes, graphic rendition, the Linux console private sequences.          *)
(***************************************************************************)
\* one round of the loop of vt_DECSET (on) or vt_RM (~on) for parameter p
SetMode(t, p, on) ==
    IF t.m_ques
    THEN CASE p = 1 -> [t EXCEPT !.m_mode.decckm = on]
           [] p = 2 -> IF on THEN [t EXCEPT !.m_gmaps = [i \in 1..4 |-> "NRCS_USASCII"]]
                       ELSE t
           [] p = 3 -> term_set_columns(
                          [t EXCEPT !.m_misc.deccolm = IF on THEN 132 ELSE 80], 0)
           [] p = 5 -> [t EXCEPT !.m_mode.decscnm = on]
           [] p = 6 -> vt_CUA([t EXCEPT !.m_mode.decom = on], 0, 0)
           [] p = 7 -> [t EXCEPT !.m_mode.decawm = on]
           [] p = 8 -> [t EXCEPT !.m_mode.decarm = on]
           [] p = 9 -> [t EXCEPT !.m_mode.repmouse = on]
           [] p = 25 -> [t EXCEPT !.m_mode.deccm = on]
           [] OTHER -> t
    ELSE CASE p = 3 -> [t EXCEPT !.m_mode.dspctrl = on]
           [] p = 4 -> [t EXCEPT !.m_mode.decim = on]
           [] p = 20 -> [t EXCEPT !.m_mode.deccr = on]
           [] OTHER -> t

RECURSIVE SetModes(_, _, _)
SetModes(t, i, on) ==
    IF i > Len(t.m_csi_args) \/ ~Done(t) THEN t
    ELSE SetModes(SetMode(t, t.m_csi_args[i], on), i + 1, on)

\* "if (m_csi_args.count() < 1) m_csi_args.resize(1);"
AtLeastOneArg(t) ==
    IF Len(t.m_csi_args) < 1 THEN [t EXCEPT !.m_csi_args = <<0>>] ELSE t

vt_DECSET(t) == SetModes(AtLeastOneArg(t), 1, TRUE)

vt_RM(t) == SetModes(AtLeastOneArg(t), 1, FALSE)

\* one round of the loop of vt_SGR for parameter p
Rendition(t, p) ==
    LET on(f) == [t EXCEPT !.m_att.flags = @ \cup {f}]
        off(fs) == [t EXCEPT !.m_att.flags = @ \ fs]
        font == gmap_at(t, IF t.m_att.charset # 0 THEN t.m_att.gr ELSE t.m_att.gl)
    IN  CASE p = 0 -> [t EXCEPT !.m_att = set_all(t.m_att, t.m_def)]
          [] p = 1 -> on("bold")
          [] p = 2 -> on("faint")
          [] p = 3 -> on("italic")
          [] p = 4 -> on("underline")
          [] p = 5 -> on("blink")
          [] p = 7 -> on("inverse")
          [] p = 8 -> on("conceal")
          [] p = 9 -> on("crossed")
          [] p = 10 -> [t EXCEPT !.m_trans = font, !.m_mode.dspctrl = FALSE,
                                 !.m_mode.togmeta = FALSE]
          [] p = 11 -> [t EXCEPT !.m_trans = t.m_gmaps[MAP_IBMPC + 1],
                                 !.m_mode.dspctrl = TRUE, !.m_mode.togmeta = FALSE]
          [] p = 12 -> [t EXCEPT !.m_trans = t.m_gmaps[MAP_IBMPC + 1],
                                 !.m_mode.dspctrl = TRUE, !.m_mode.togmeta = TRUE]
          [] p = 21 -> on("underldbl")
          [] p = 22 -> off({"bold", "faint"})
          [] p = 23 -> off({"italic"})
          [] p = 24 -> off({"underline", "underldbl"})
          [] p = 25 -> off({"blink"})
          [] p = 27 -> off({"inverse"})
          [] p = 28 -> off({"conceal"})
          [] p = 29 -> off({"crossed"})
          [] p \in 30..37 -> [t EXCEPT !.m_att.fg = p - 30]
          [] p = 38 -> [t EXCEPT !.m_att.fg = t.m_def.fg,
                                 !.m_att.flags = @ \cup {"underline"}]
          [] p = 39 -> [t EXCEPT !.m_att.fg = t.m_def.fg,
                                 !.m_att.flags = @ \ {"underline"}]
          [] p \in 40..47 -> [t EXCEPT !.m_att.bg = p - 40]
          [] p = 49 -> [t EXCEPT !.m_att.bg = t.m_def.bg]
          [] OTHER -> t

RECURSIVE Renditions(_, _)
Renditions(t, i) ==
    IF i > Len(t.m_csi_args) \/ ~Done(t) THEN t
    ELSE Renditions(Rendition(t, t.m_csi_args[i]), i + 1)

vt_SGR_first_only(t) == Rendition(AtLeastOneArg(t), AtLeastOneArg(t).m_csi_args[1])

vt_SGR(t) == Renditions(AtLeastOneArg(t), 1)

\* m_csi_args[1] of vt_OSC: beyond the end the read yields junk
Arg1(t) == IF Len(t.m_csi_args) >= 2 THEN t.m_csi_args[2] ELSE t.junk

vt_OSC(t) ==
    LET t1 == AtLeastOneArg(t)
        n == Len(t1.m_csi_args)
        p == t1.m_csi_args[1]
    IN  CASE p = 1 -> [t1 EXCEPT !.m_misc.uc = Arg1(t1) % 8, !.oob = @ \/ n < 2]
          [] p = 2 -> [t1 EXCEPT !.m_misc.hc = Arg1(t1) % 8, !.oob = @ \/ n < 2]
          [] p = 8 -> [t1 EXCEPT !.m_def = t1.m_att]
          [] p = 9 -> [t1 EXCEPT !.m_misc.blank_time =
                          (IF n < 2 THEN 60 ELSE Min(t1.m_csi_args[2], 60)) * 60]
          [] p = 10 -> [t1 EXCEPT !.m_misc.bell_pitch =
                          IF n < 2 THEN 750 ELSE t1.m_csi_args[2]]
          [] p = 11 -> [t1 EXCEPT !.m_misc.bell_duration =
                          IF n < 2 THEN 125 ELSE Min(t1.m_csi_args[2], 2000)]
          [] p = 14 -> [t1 EXCEPT
                          !.m_csi_args = IF n < 2 THEN <<p, 0>> ELSE SubSeq(@, 1, 2),
                          !.m_misc.vesa_time =
                              (IF n < 2 THEN 0 ELSE Min(t1.m_csi_args[2], 60)) * 60]
          [] OTHER -> t1

\* the first sixteen entries of the 256 colour table, as <<r, g, b>>
vt_palette_reset(t) ==
    [t EXCEPT !.m_pal = [i \in 0..15 |->
        CASE i = 0 -> <<0, 0, 0>>
          [] i = 3 -> <<170, 85, 0>>
          [] i = 7 -> <<170, 170, 170>>
          [] i = 8 -> <<85, 85, 85>>
          [] i \in 1..6 -> << (i % 2) * 170, ((i \div 2) % 2) * 170, (i \div 4) * 170 >>
          [] OTHER -> << 85 + (i % 2) * 170, 85 + ((i \div 2) % 2) * 170,
                         85 + ((i - 8) \div 4) * 170 >>]]

vt_tabstop_reset(t) ==
    [t EXCEPT !.m_tabstop = { i \in 8..(TabBits - 1) : i % 8 = 0 }]

\* QByteArray::number(n): the decimal digits of n as bytes
RECURSIVE Number(_)
Number(n) == IF n < 10 THEN <<48 + n>> ELSE Append(Number(n \div 10), 48 + (n % 10))

\* the VT200 branch; the reply is the sequence of its bytes
vt_DECID(t, Ps) ==
    LET intro == IF t.m_mode.s8c1t THEN <<CSI>> ELSE <<ESC, 91>>
        par == IF Ps # 0 THEN <<59>> \o Number(Ps) ELSE << >>
    IN  [t EXCEPT !.term_response = Append(@, intro \o <<63, 54, 50>> \o par \o <<99>>)]

save(t) == [t EXCEPT !.m_cursor_saved = t.m_cursor, !.m_att_saved = t.m_att]

restore(t) ==
    Let(vt_CUP(t, t.m_cursor_saved.x, t.m_cursor_saved.y), LAMBDA t1 :
    Let([t1 EXCEPT !.m_att = t1.m_att_saved], LAMBDA t2 :
        LET g == IF t2.m_att.charset # 0 THEN t2.m_att.gr ELSE t2.m_att.gl
        IN  [t2 EXCEPT !.m_trans = gmap_at(t2, g), !.oob = @ \/ gmap_bad(g)]))

(***************************************************************************)
(* Construction and reset.                                                 *)
(***************************************************************************)
\* the members as the constructor's initialiser list leaves them, before it
\* calls term_reset; junk is the value reads outside a container yield
Members(j) ==
    [m_width |-> Cols, m_height |-> Rows, m_top |-> 0, m_bottom |-> Rows,
     m_screen |-> << >>, m_backlog |-> << >>,
     m_cursor |-> [x |-> 0, newx |-> 0, y |-> 0, on |-> FALSE, phase |-> 0],
     m_cursor_saved |-> [x |-> 0, newx |-> 0, y |-> 0, on |-> FALSE, phase |-> 0],
     m_att |-> vtAttr(0), m_att_saved |-> vtAttr(0), m_def |-> vtAttr(0),
     m_state |-> "ESnormal", m_ques |-> FALSE, m_csi_args |-> << >>,
     m_string |-> << >>,
     m_mode |-> [decscnm |-> FALSE, togmeta |-> FALSE, deccm |-> TRUE,
                 decim |-> FALSE, decom |-> FALSE, deccr |-> TRUE,
                 decckm |-> FALSE, decawm |-> TRUE, decarm |-> TRUE,
                 repmouse |-> FALSE, dspctrl |-> FALSE, s8c1t |-> TRUE],
     m_gmaps |-> <<"none", "none", "none", "none">>, m_trans |-> "none",
     m_shift |-> 0 - 1,
     m_utf |-> [mode |-> TRUE, more |-> 0, code |-> UC_INVALID, code_min |-> 0],
     m_tabstop |-> {}, m_pal |-> [i \in 0..15 |-> <<0, 0, 0>>],
     m_misc |-> [backlog_max |-> BacklogMax, deccolm |-> Cols, ansi |-> 3,
                 uc |-> 0, hc |-> 0, bell_pitch |-> 1000, bell_duration |-> 100,
                 blank_time |-> 600, vesa_time |-> 600, cc_mask |-> 0,
                 cc_save |-> 0, cursor_type |-> 0],
     term_response |-> << >>, decoded |-> << >>, oob |-> FALSE, junk |-> j,
     evicted |-> << >>]

term_reset(t, width, height) ==
    LET def == vtAttr(32)
        t1 == [t EXCEPT
                 !.m_gmaps = <<"MAP_LATIN1", "MAP_DECGR", "MAP_IBMPC", "MAP_USER">>,
                 !.m_width = width, !.m_height = height,
                 !.m_top = 0, !.m_bottom = height]
        t2 == vt_tabstop_reset(vt_palette_reset(t1))
    IN  [t2 EXCEPT
           !.m_misc.cc_mask = 30464, !.m_misc.cc_save = 30464,
           !.m_csi_args = << >>, !.m_state = "ESnormal", !.m_ques = FALSE,
           !.m_mode.decscnm = FALSE, !.m_mode.togmeta = FALSE,
           !.m_mode.deccm = TRUE, !.m_mode.decim = FALSE,
           !.m_mode.decom = FALSE, !.m_mode.deccr = TRUE,
           !.m_mode.decckm = FALSE, !.m_mode.decawm = TRUE,
           !.m_mode.decarm = TRUE, !.m_mode.repmouse = FALSE,
           !.m_mode.dspctrl = TRUE,
           !.m_misc.uc = 7, !.m_misc.hc = 0,
           !.m_misc.bell_pitch = 750, !.m_misc.bell_duration = 125,
           !.m_misc.blank_time = 600, !.m_misc.vesa_time = 600,
           !.m_trans = t2.m_gmaps[MAP_LATIN1 + 1], !.m_shift = 0 - 1,
           !.m_utf = [mode |-> TRUE, more |-> 0, code |-> 0, code_min |-> 0],
           !.m_def = def, !.m_att = def,
           !.m_backlog = << >>,
           !.m_screen = [y \in 1..height |-> vtLine(width, def)],
           !.m_cursor = [x |-> 0, newx |-> 0, y |-> 0, on |-> FALSE, phase |-> 0]]

\* vt220::vt220: the initialiser list, then term_reset(m_terminal, m_width, m_height)
Constructed(j) == term_reset(Members(j), Cols, Rows)

(***************************************************************************)
(* QChar.                                                                  *)
(***************************************************************************)
\* QChar::isPrint(uint): false for control, format, surrogate, private use
\* and unassigned code points and for values above U+10FFFF
isPrint(tc) ==
    /\ tc >= 32
    /\ tc \notin 127..159
    /\ tc # 173
    /\ tc \notin 55296..63743
    /\ tc \notin {65534, 65535}
    /\ tc <= 1114111

\* QChar::category for the marks among the code points the specifications send
category(uc) ==
    CASE uc \in 768..879 -> "Mark_NonSpacing"
      [] uc \in 8413..8416 -> "Mark_Enclosing"
      [] uc \in {2307} -> "Mark_SpacingCombining"
      [] OTHER -> "Other"

\* QChar(uint) keeps the low 16 bits
QChar(tc) == tc % 65536

\* QByteArray::fromHex of one byte: its hex value, or nothing for a non-digit
fromHex(ch) ==
    CASE ch \in 48..57 -> <<ch - 48>>
      [] ch \in 65..70 -> <<ch - 55>>
      [] ch \in 97..102 -> <<ch - 87>>
      [] OTHER -> << >>

(***************************************************************************)
(* putch, stage 1: the UTF-8 decoder and the 7/8 bit path.                 *)
(* The result is [t, tc, ch, ch2, ret]: the terminal, the code point, the  *)
(* byte as the later stages see it, the byte to process again, and whether *)
(* putch returns here (bytes of the sequence are outstanding).             *)
(***************************************************************************)
\* "tc = m_trans.value(ch, ch)" and the end of a single shift
Translated(t, ch) ==
    LET tc == Translate(t.m_trans, ch)
        t1 == IF t.m_shift >= 0
              THEN [t EXCEPT !.m_att.charset = t.m_shift,
                             !.m_trans = gmap_at(t, t.m_shift),
                             !.m_shift = 0 - 1]
              ELSE t
    IN  [t |-> t1, tc |-> tc]

\* what the decoder hands on for a byte: nothing yet, or a code point
Pending == [pending |-> TRUE, tc |-> 0]
Yield(tc) == [pending |-> FALSE, tc |-> tc]

\* the branches that start a multi-byte sequence
Lead(t, more, code, code_min) ==
    [t EXCEPT !.m_utf.more = more, !.m_utf.code = code, !.m_utf.code_min = code_min]

\* "if (tc < m_utf_code_min)": the sequence is longer than its value needs
Overlong_never(tc, code_min) == FALSE

Overlong(tc, code_min) == tc < code_min

Decode(t, ch) ==
    LET out(u, tc, c, c2) ==
            LET pending == u.m_utf.code # UC_INVALID /\ u.m_utf.more > 0
            IN  [t |-> [u EXCEPT !.decoded = Append(@, IF pending THEN Pending ELSE Yield(tc))],
                 tc |-> tc, ch |-> c, ch2 |-> c2, ret |-> pending]
    IN  IF t.m_utf.mode
        THEN IF ch >= 128
             THEN IF t.m_utf.more > 0
                  THEN LET code == t.m_utf.code * 64  \* at most 31 bits: no wrap
                       IN  IF ch \div 64 = 2
                           THEN LET code2 == code + (ch % 64)
                                    more == t.m_utf.more - 1
                                IN  IF more = 0
                                    THEN out([t EXCEPT !.m_utf.more = 0, !.m_utf.code = 0],
                                             IF Overlong(code2, t.m_utf.code_min)
                                             THEN UC_REPLACE ELSE code2,
                                             ch, 0)
                                    ELSE out([t EXCEPT !.m_utf.more = more,
                                                       !.m_utf.code = code2],
                                             UC_INVALID, ch, 0)
                           ELSE out([t EXCEPT !.m_utf.more = 0, !.m_utf.code = code],
                                    UC_REPLACE, ch, 0)
                  ELSE CASE ch \in 192..223 -> out(Lead(t, 1, ch % 32, 128), UC_INVALID, ch, 0)
                         [] ch \in 224..239 -> out(Lead(t, 2, ch % 16, 2048), UC_INVALID, ch, 0)
                         [] ch \in 240..247 -> out(Lead(t, 3, ch % 8, 65536), UC_INVALID, ch, 0)
                         [] ch \in 248..251 -> out(Lead(t, 4, ch % 4, 1114112), UC_INVALID, ch, 0)
                         [] ch \in 252..253 -> out(Lead(t, 5, ch % 2, 134217728), UC_INVALID, ch, 0)
                         [] OTHER -> out(Lead(t, 0, 0, t.m_utf.code_min), UC_REPLACE, ch, 0)
             ELSE IF t.m_utf.more > 0
                  THEN out([t EXCEPT !.m_utf.more = 0, !.m_utf.code = UC_INVALID],
                           UC_REPLACE, ch, ch)
                  ELSE LET r == Translated([t EXCEPT !.m_utf.code = ch], ch)
                       IN  out(r.t, r.tc, ch, 0)
        ELSE LET c == IF t.m_mode.togmeta THEN 128 + (ch % 128) ELSE ch % 128
                 r == Translated(t, c)
             IN  [t |-> [r.t EXCEPT !.decoded = Append(@, Yield(r.tc))],
                  tc |-> r.tc, ch |-> c, ch2 |-> 0, ret |-> FALSE]

(***************************************************************************)
(* putch, stage 2: is the byte a glyph, and placing it.                    *)
(***************************************************************************)
have_glyph(t, tc, ch) ==
    LET ctrl == IF t.m_mode.dspctrl THEN CTRL_ALWAYS ELSE CTRL_ACTION
    IN  /\ tc # UC_INVALID
        /\ (ch >= 32 \/ (~t.m_utf.mode /\ ch \notin ctrl))
        /\ (ch # DEL \/ t.m_mode.dspctrl)
        /\ (ch # CSI \/ t.m_utf.mode)

\* the marking character branch
PlaceMark(t, tc, width) ==
    Let([cell_at(t, t.m_cursor.x, t.m_cursor.y) EXCEPT !.mark = tc, !.width = width],
        LAMBDA chr :
        [outch(t, t.m_cursor.x, t.m_cursor.y, chr)
            EXCEPT !.oob = @ \/ ~Allocated(t, t.m_cursor.x, t.m_cursor.y)])

\* the printing character branch
PlaceChar(t, tc) ==
    Let(IF t.m_cursor.newx >= t.m_width
        THEN IF t.m_mode.decawm THEN vt_LF(vt_CR(t))
             ELSE set_newx(t, t.m_width - 1)
        ELSE t, LAMBDA t1 :
    Let([t1 EXCEPT !.m_cursor.x = t1.m_cursor.newx], LAMBDA t2 :
    Let(IF t2.m_mode.decim THEN vt_ICH(t2, 1) ELSE t2, LAMBDA t3 :
    Let([t3 EXCEPT !.m_att.code = tc, !.m_att.mark = 0], LAMBDA t4 :
        outch(t4, t4.m_cursor.x, t4.m_cursor.y, t4.m_att)))))

\* from "QChar qc(tc)" to "set_newx(m_cursor.x + width)"
PlaceGlyph(t, tc0) ==
    Let(IF isPrint(tc0) THEN tc0 ELSE UC_REPLACE, LAMBDA tc :
    Let(IF category(tc) = "Mark_Enclosing" THEN 2 ELSE 1, LAMBDA width :
    Let(IF category(QChar(tc)) # "Other"
        THEN PlaceMark(t, tc, width) ELSE PlaceChar(t, tc), LAMBDA t1 :
        set_newx(t1, t1.m_cursor.x + width))))

(***************************************************************************)
(* putch, stage 3: the controls of the normal state.  The result is        *)
(* [t, ret]: ret says that putch returns without entering the state switch.*)
(***************************************************************************)
vt_SOS(t) == [t EXCEPT !.m_string = << >>, !.m_state = "ESstring"]

vt_ST(t) == [t EXCEPT !.m_state = "ESnormal"]

Control(t, ch) ==
    LET done(u) == [t |-> u, ret |-> TRUE]
        cr(u) == IF u.m_mode.deccr THEN vt_CR(u) ELSE u
    IN  CASE ch \in {NUL, BEL} -> done(t)
          [] ch = BS -> done(vt_BS(t))
          [] ch = HT -> done(vt_TAB(t))
          [] ch = LF -> done(vt_LF(cr(t)))
          [] ch = VT -> done(vt_VT(cr(t)))
          [] ch = FF -> done(vt_LF(cr(t)))
          [] ch = CR -> done(vt_CR(t))
          [] ch = SO -> done(vt_LS1(t))
          [] ch = SI -> done(vt_LS0(t))
          [] ch \in {CAN, SUB} -> done([t EXCEPT !.m_state = "ESnormal"])
          [] ch = ESC -> done([t EXCEPT !.m_state = "ESesc"])
          [] ch = IND -> done(vt_IND(t))
          [] ch = NEL -> done(vt_NEL(t))
          [] ch = HTS -> done(vt_HTS(t))
          [] ch = RI -> done(vt_RI(t))
          [] ch = SS2 -> done(vt_SS2(t))
          [] ch = SS3 -> done(vt_SS3(t))
          [] ch \in {DCS, SPA, EPA} -> done(t)
          [] ch = SOS -> done(vt_SOS(t))
          [] ch = DECID -> done(vt_DECID(t, 0))
          [] ch = CSI -> [t |-> [t EXCEPT !.m_state = "EScsi"], ret |-> FALSE]
          [] ch = ST -> done(vt_ST(t))
          [] ch = OSC -> done([t EXCEPT !.m_state = "ESosc"])
          [] ch \in {PM, APC} -> done([t EXCEPT !.m_state = "ESnormal"])
          [] OTHER -> [t |-> t, ret |-> FALSE]

(***************************************************************************)
(* putch, stage 4: the state switch.                                       *)
(***************************************************************************)
\* case ESesc
Escape(t0, ch) ==
    LET t == [t0 EXCEPT !.m_state = "ESnormal"]
        to(st) == [t EXCEPT !.m_state = st]
    IN  CASE ch = FF -> vt_FF(t)
          [] ch = 32 -> to("ESspc")
          [] ch = 37 -> to("ESperc")
          [] ch = 68 -> vt_IND(t)
          [] ch = 69 -> vt_NEL(t)
          [] ch = 72 -> vt_HTS(t)
          [] ch = 77 -> vt_RI(t)
          [] ch = 78 -> vt_SS2(t)
          [] ch = 79 -> vt_SS3(t)
          [] ch = 88 -> vt_SOS(t)
          [] ch = 90 -> vt_DECID(t, 0)
          [] ch = 91 -> to("EScsi")
          [] ch = 92 -> vt_ST(t)
          [] ch = 93 -> to("ESosc")
          [] ch = 55 -> save(t)
          [] ch = 56 -> restore(t)
          [] ch = 40 -> to("ESsetG0_vt200")
          [] ch = 41 -> to("ESsetG1_vt200")
          [] ch = 42 -> to("ESsetG2_vt200")
          [] ch = 43 -> to("ESsetG3_vt200")
          [] ch = 35 -> to("EShash")
          [] ch = 99 -> vt_ED(term_reset(t, t.m_width, t.m_height), 2)
          [] ch = 110 -> vt_LS2(t)
          [] ch = 111 -> vt_LS3(t)
          [] ch = 126 -> vt_LSR(t, 1)
          [] ch = 125 -> vt_LSR(t, 2)
          [] ch = 124 -> vt_LSR(t, 3)
          [] OTHER -> t

\* case ESspc
EscapeSpace(t0, ch) ==
    LET t == [t0 EXCEPT !.m_state = "ESnormal"]
    IN  CASE ch = 70 -> [t EXCEPT !.m_mode.s8c1t = FALSE]
          [] ch = 71 -> [t EXCEPT !.m_mode.s8c1t = TRUE]
          [] ch \in 76..78 -> [t EXCEPT !.m_misc.ansi = ch - 75]
          [] OTHER -> t

\* case ESosc
EscapeOsc(t0, ch) ==
    LET t == [t0 EXCEPT !.m_state = "ESnormal"]
    IN  CASE ch = 80 -> [t EXCEPT !.m_state = "ESpalette", !.m_csi_args = << >>]
          [] ch = 82 -> vt_palette_reset(t)
          [] OTHER -> t

\* "m_csi_args.resize(count + 1); ... m_csi_args.append(ba.at(0));"
PaletteCollect(args, v) == args \o <<0, v>>

\* case ESpalette
Palette(t, ch) ==
    LET ba == fromHex(ch)
        v == IF ba = << >> THEN t.junk ELSE ba[1]
        args == PaletteCollect(t.m_csi_args, v)
        t1 == [t EXCEPT !.m_csi_args = args, !.oob = @ \/ ba = << >>]
    IN  IF Len(args) = 7
        THEN LET i == args[1] % 256
                 r == (args[2] * 16 + args[3]) % 256
                 g == (args[4] * 16 + args[5]) % 256
                 b == (args[6] * 16 + args[7]) % 256
             IN  IF i \in DOMAIN t1.m_pal
                 THEN [t1 EXCEPT !.m_pal[i] = <<r, g, b>>, !.m_state = "ESnormal"]
                 ELSE [t1 EXCEPT !.m_state = "ESnormal"]
        ELSE t1

\* case ESstring
String(t, ch) ==
    IF t.m_string = << >> THEN [t EXCEPT !.m_string = <<ch>>]
    ELSE IF ch = 92 /\ t.m_string[Len(t.m_string)] = ESC
    THEN [t EXCEPT !.m_string = SubSeq(@, 1, Len(@) - 1), !.m_state = "ESnormal"]
    ELSE IF ch = ST THEN [t EXCEPT !.m_state = "ESnormal"]
    ELSE [t EXCEPT !.m_string = Append(@, ch)]

\* case ESperc
EscapePercent(t0, ch) ==
    LET t == [t0 EXCEPT !.m_state = "ESnormal"]
    IN  CASE ch = 64 -> [t EXCEPT !.m_utf.mode = FALSE]
          [] ch \in {71, 56} -> [t EXCEPT !.m_utf.mode = TRUE]
          [] OTHER -> t

\* cases ESsetG0_vt200 .. ESsetG3_vt200, for G-set g
Designate200(t0, g, ch) ==
    LET t == [t0 EXCEPT !.m_state = "ESnormal"]
        map == select_map_vt200(ch)
    IN  IF map = "MAP_VT500"
        THEN [t EXCEPT !.m_state = CASE g = 0 -> "ESsetG0_vt500" [] g = 1 -> "ESsetG1_vt500"
                                     [] g = 2 -> "ESsetG2_vt500" [] OTHER -> "ESsetG3_vt500"]
        ELSE [t EXCEPT !.m_gmaps[g + 1] = map]

\* cases ESsetG0_vt500 .. ESsetG3_vt500: m_charmaps[MAP_INVALID] lies before
\* the first character map
Designate500(t0, g, ch) ==
    LET t == [t0 EXCEPT !.m_state = "ESnormal"]
        map == select_map_vt500(ch)
    IN  IF map = "MAP_INVALID"
        THEN [t EXCEPT !.m_gmaps[g + 1] = "junk", !.oob = TRUE]
        ELSE [t EXCEPT !.m_gmaps[g + 1] = map]

\* case EShash
Hash(t0, ch) ==
    LET t == [t0 EXCEPT !.m_state = "ESnormal"]
        y == t.m_cursor.y
        ok == y >= 0 /\ y < Len(t.m_screen)
    IN  IF ch \notin {51, 52, 53, 54} THEN t
        ELSE IF ~ok THEN [t EXCEPT !.oob = TRUE]
        ELSE CASE ch = 51 -> [t EXCEPT !.m_screen[y + 1].decdhl = "top"]
               [] ch = 52 -> [t EXCEPT !.m_screen[y + 1].decdhl = "bottom"]
               [] ch = 53 -> [t EXCEPT !.m_screen[y + 1].decdwl = FALSE]
               [] OTHER -> [t EXCEPT !.m_screen[y + 1].decdwl = TRUE]

\* "m_csi_args.count() < 1 ? dflt : m_csi_args[0]"
Arg0(t, dflt) == IF Len(t.m_csi_args) < 1 THEN dflt ELSE t.m_csi_args[1]

\* "m_csi_args.resize(1)"
ResizeOne(t) == [t EXCEPT !.m_csi_args = IF @ = << >> THEN <<0>> ELSE <<@[1]>>]

\* "emit term_response(...)": the reply joins those of this write
Respond(t, bytes) == [t EXCEPT !.term_response = Append(@, bytes)]

\* CSI r
SetRegion(t) ==
    LET t1 == IF Len(t.m_csi_args) < 1 THEN [t EXCEPT !.m_csi_args = Append(@, 1)] ELSE t
        short == Len(t1.m_csi_args) < 2
        a0 == t1.m_csi_args[1]
        a1 == IF short THEN t1.junk ELSE t1.m_csi_args[2]
        t2 == [t1 EXCEPT !.oob = @ \/ short]
    IN  IF a0 < a1 /\ a1 <= t2.m_height
        THEN vt_CUA([t2 EXCEPT !.m_top = a0 - 1, !.m_bottom = a1], 0, 0)
        ELSE t2

\* CSI g
ClearTab(t) ==
    LET t1 == ResizeOne(t)
        p == t1.m_csi_args[1]
        x == t1.m_cursor.newx
    IN  CASE p = 0 -> [t1 EXCEPT !.m_tabstop = @ \ {x},
                                 !.oob = @ \/ x < 0 \/ x >= TabBits]
          [] p = 3 -> [t1 EXCEPT !.m_tabstop = {}]
          [] OTHER -> t1

\* the second switch of case ESgotargs: the final byte without "?"
CsiFinal(t, ch) ==
    LET sync == [t EXCEPT !.m_cursor.x = t.m_cursor.newx]
    IN  CASE ch = 64 -> vt_ICH(t, Arg0(t, 1))
          [] ch = 65 -> vt_CUU(t, Arg0(t, 1))
          [] ch \in {66, 101} -> vt_CUD(t, Arg0(t, 1))
          [] ch \in {67, 97} -> vt_CUF(sync, Arg0(t, 1))
          [] ch = 68 -> vt_CUB(sync, Arg0(t, 1))
          [] ch = 69 -> vt_CNL(t, Arg0(t, 1))
          [] ch = 70 -> vt_CPL(t, Arg0(t, 1))
          [] ch \in {71, 96} -> vt_CHA(t, Arg0(t, 1))
          [] ch \in {72, 102} ->
                LET a == IF Len(t.m_csi_args) < 1 THEN <<1, 1>>
                         ELSE IF Len(t.m_csi_args) < 2 THEN Append(t.m_csi_args, 1)
                         ELSE t.m_csi_args
                IN  vt_CUA([t EXCEPT !.m_csi_args = a], a[2] - 1, a[1] - 1)
          [] ch = 73 -> vt_CHT(t, Arg0(t, 0))
          [] ch = 74 -> vt_ED(t, Arg0(t, 0))
          [] ch = 75 -> vt_EL(t, Arg0(t, 0))
          [] ch = 76 -> vt_IL(t, Arg0(t, 1))
          [] ch = 77 -> vt_DL(t, Arg0(t, 1))
          [] ch = 80 ->
                LET t1 == ResizeOne(t)
                    n == IF t1.m_csi_args[1] = 0 THEN 1 ELSE t1.m_csi_args[1]
                IN  vt_DCH([t1 EXCEPT !.m_csi_args = <<n>>], n)
          [] ch = 88 ->
                LET t1 == ResizeOne(t)
                    n == IF t1.m_csi_args[1] = 0 THEN 1 ELSE t1.m_csi_args[1]
                IN  vt_ECH([t1 EXCEPT !.m_csi_args = <<n>>], n)
          [] ch = 99 -> LET t1 == ResizeOne(t) IN vt_DECID(t1, t1.m_csi_args[1])
          [] ch = 100 ->
                LET t1 == AtLeastOneArg(sync)
                IN  vt_CUA(t1, t1.m_cursor.x, t1.m_csi_args[1] - 1)
          [] ch = 103 -> ClearTab(t)
          [] ch = 109 -> vt_SGR(t)
          [] ch = 114 -> SetRegion(t)
          [] ch = 115 -> save(t)
          [] ch = 117 -> restore(t)
          [] ch = 93 -> vt_OSC(t)
          [] OTHER -> t

\* "m_csi_args.value(i)": 0 beyond the end
ArgValue(t, i) == IF i < Len(t.m_csi_args) THEN t.m_csi_args[i + 1] ELSE 0

\* CSI n: the status reports
Report(t) ==
    LET pos(final) == <<ESC, 91>> \o Number(t.m_cursor.y + 1) \o <<59>>
                        \o Number(t.m_cursor.x + 1) \o <<final>>
    IN  CASE ArgValue(t, 0) = 5 -> Respond(t, <<ESC, 91, 48, 99>>)
          [] ArgValue(t, 0) = 6 -> Respond(t, pos(82))
          [] OTHER -> Respond(t, pos(72))

\* case ESgotargs
GotArgs(t0, ch) ==
    Let([t0 EXCEPT !.m_state = "ESnormal"], LAMBDA t :
    Let(CASE ch = 99 /\ t.m_ques ->
                [t EXCEPT !.m_misc.cursor_type =
                    IF Len(t.m_csi_args) > 2
                    THEN ArgValue(t, 0) + ArgValue(t, 1) * 256
                         + ArgValue(t, 2) * 65536
                    ELSE 0]
          [] ch = 109 /\ t.m_ques ->
                [t EXCEPT !.m_misc.cc_mask =
                    IF Len(t.m_csi_args) > 1
                    THEN ArgValue(t, 0) * 256 + ArgValue(t, 1)
                    ELSE t.m_misc.cc_save]
          [] ch = 110 /\ ~t.m_ques -> Report(t)
          [] OTHER -> t, LAMBDA t1 :
        IF ch = 104 THEN vt_DECSET(t)
        ELSE IF ch = 108 THEN vt_RM(t)
        ELSE IF t1.m_ques THEN [t1 EXCEPT !.m_ques = FALSE]
        ELSE CsiFinal(t1, ch)))

\* case ESgetargs
GetArgs(t, ch) ==
    IF ch = 59 THEN [t |-> [t EXCEPT !.m_csi_args = Append(@, 0)], fall |-> FALSE]
    ELSE IF ch \in 48..57
    THEN [t |-> [t EXCEPT !.m_csi_args[Len(t.m_csi_args)] = @ * 10 + ch - 48],
          fall |-> FALSE]
    ELSE [t |-> [t EXCEPT !.m_state = "ESgotargs"], fall |-> TRUE]

\* case EScsi
CsiEntry(t0, ch) ==
    LET t == [t0 EXCEPT !.m_state = "ESgetargs", !.m_csi_args = <<0>>]
    IN  IF ch = 91 THEN [t |-> [t EXCEPT !.m_state = "ESfunckey"], fall |-> FALSE]
        ELSE IF ch = 63 THEN [t |-> [t EXCEPT !.m_ques = TRUE], fall |-> FALSE]
        ELSE [t |-> [t EXCEPT !.m_ques = FALSE], fall |-> TRUE]

\* cases EScsi, ESgetargs and ESgotargs, which the switch lists in this order:
\* each is entered by its label or by the fall through of the one before
CsiStates(t, ch) ==
    Let(IF t.m_state = "EScsi" THEN CsiEntry(t, ch)
        ELSE [t |-> t, fall |-> t.m_state = "ESgetargs"], LAMBDA a :
    Let(IF a.fall THEN GetArgs(a.t, ch)
        ELSE [t |-> a.t, fall |-> t.m_state = "ESgotargs"], LAMBDA b :
        IF b.fall THEN GotArgs(b.t, ch) ELSE b.t))

\* "switch (m_state)"
StateSwitch(t, ch) ==
    CASE t.m_state = "ESesc" -> Escape(t, ch)
      [] t.m_state = "ESspc" -> EscapeSpace(t, ch)
      [] t.m_state = "ESosc" -> EscapeOsc(t, ch)
      [] t.m_state = "ESpalette" -> Palette(t, ch)
      [] t.m_state \in {"EScsi", "ESgetargs", "ESgotargs"} -> CsiStates(t, ch)
      [] t.m_state = "ESstring" -> String(t, ch)
      [] t.m_state = "ESperc" -> EscapePercent(t, ch)
      [] t.m_state = "ESsetG0_vt200" -> Designate200(t, 0, ch)
      [] t.m_state = "ESsetG1_vt200" -> Designate200(t, 1, ch)
      [] t.m_state = "ESsetG2_vt200" -> Designate200(t, 2, ch)
      [] t.m_state = "ESsetG3_vt200" -> Designate200(t, 3, ch)
      [] t.m_state = "ESsetG0_vt500" -> Designate500(t, 0, ch)
      [] t.m_state = "ESsetG1_vt500" -> Designate500(t, 1, ch)
      [] t.m_state = "ESsetG2_vt500" -> Designate500(t, 2, ch)
      [] t.m_state = "ESsetG3_vt500" -> Designate500(t, 3, ch)
      [] t.m_state = "EShash" -> Hash(t, ch)
      [] t.m_state = "ESfunckey" -> [t EXCEPT !.m_state = "ESnormal"]
      [] OTHER -> t

(***************************************************************************)
(* putch and write.                                                        *)
(***************************************************************************)
\* after the "break" of the loop: the control switch, then the state switch
Dispatch(t, ch) ==
    Let(IF t.m_state = "ESnormal" THEN Control(t, ch)
        ELSE [t |-> t, ret |-> FALSE], LAMBDA c :
        IF c.ret THEN c.t ELSE StateSwitch(c.t, ch))

RECURSIVE putch(_, _)
putch(t, ch) ==
    Let(Decode(t, ch), LAMBDA d :
        IF d.ret THEN d.t
        ELSE IF ~have_glyph(d.t, d.tc, d.ch) \/ d.t.m_state # "ESnormal"
        THEN Dispatch(d.t, d.ch)
        ELSE Let(PlaceGlyph(d.t, d.tc), LAMBDA g :
                 IF d.ch2 = 0 THEN g ELSE putch(g, d.ch2)))

RECURSIVE putchs(_, _, _)
putchs(t, bytes, i) ==
    IF i > Len(bytes) \/ ~Done(t) THEN t ELSE putchs(putch(t, bytes[i]), bytes, i + 1)

write(t, bytes) ==
    LET was_on == t.m_cursor.on
        t1 == set_cursor([t EXCEPT !.term_response = << >>, !.decoded = << >>], FALSE)
    IN  set_cursor(putchs(t1, bytes, 1), was_on)

(***************************************************************************)
(* The state machine.  The variables are the members of the one vt220      *)
(* object; an action is one call of write() from the host.                 *)
(***************************************************************************)
\* the object as a record, and a record assigned to the object
T ==
    [m_width |-> m_width, m_height |-> m_height, m_top |-> m_top,
     m_bottom |-> m_bottom, m_screen |-> m_screen,
     m_backlog |-> m_backlog, m_cursor |-> m_cursor,
     m_cursor_saved |-> m_cursor_saved, m_att |-> m_att,
     m_att_saved |-> m_att_saved, m_def |-> m_def, m_state |-> m_state,
     m_ques |-> m_ques, m_csi_args |-> m_csi_args, m_string |-> m_string,
     m_mode |-> m_mode, m_gmaps |-> m_gmaps, m_trans |-> m_trans,
     m_shift |-> m_shift, m_utf |-> m_utf, m_tabstop |-> m_tabstop,
     m_pal |-> m_pal, m_misc |-> m_misc, term_response |-> term_response,
     decoded |-> decoded, oob |-> oob, junk |-> junk, evicted |-> evicted]

SetT(t) ==
    /\ m_width' = t.m_width
    /\ m_height' = t.m_height
    /\ m_top' = t.m_top
    /\ m_bottom' = t.m_bottom
    /\ m_screen' = t.m_screen
    /\ m_backlog' = t.m_backlog
    /\ m_cursor' = t.m_cursor
    /\ m_cursor_saved' = t.m_cursor_saved
    /\ m_att' = t.m_att
    /\ m_att_saved' = t.m_att_saved
    /\ m_def' = t.m_def
    /\ m_state' = t.m_state
    /\ m_ques' = t.m_ques
    /\ m_csi_args' = t.m_csi_args
    /\ m_string' = t.m_string
    /\ m_mode' = t.m_mode
    /\ m_gmaps' = t.m_gmaps
    /\ m_trans' = t.m_trans
    /\ m_shift' = t.m_shift
    /\ m_utf' = t.m_utf
    /\ m_tabstop' = t.m_tabstop
    /\ m_pal' = t.m_pal
    /\ m_misc' = t.m_misc
    /\ term_response' = t.term_response
    /\ decoded' = t.decoded
    /\ oob' = t.oob
    /\ junk' = t.junk
    /\ evicted' = t.evicted

InitT(t) ==
    /\ m_width = t.m_width
    /\ m_height = t.m_height
    /\ m_top = t.m_top
    /\ m_bottom = t.m_bottom
    /\ m_screen = t.m_screen
    /\ m_backlog = t.m_backlog
    /\ m_cursor = t.m_cursor
    /\ m_cursor_saved = t.m_cursor_saved
    /\ m_att = t.m_att
    /\ m_att_saved = t.m_att_saved
    /\ m_def = t.m_def
    /\ m_state = t.m_state
    /\ m_ques = t.m_ques
    /\ m_csi_args = t.m_csi_args
    /\ m_string = t.m_string
    /\ m_mode = t.m_mode
    /\ m_gmaps = t.m_gmaps
    /\ m_trans = t.m_trans
    /\ m_shift = t.m_shift
    /\ m_utf = t.m_utf
    /\ m_tabstop = t.m_tabstop
    /\ m_pal = t.m_pal
    /\ m_misc = t.m_misc
    /\ term_response = t.term_response
    /\ decoded = t.decoded
    /\ oob = t.oob
    /\ junk = t.junk
    /\ evicted = t.evicted

\* a call of a public member function, with its width and height arguments
CallOf(op, w, h) == [op |-> op, w |-> w, h |-> h]

\* the values a read outside a container may yield
JunkValues == {0, 7}

Init ==
    /\ InitT(Constructed(0))
    /\ data = << >>
    /\ nwrites = 0
    /\ inflight = << >>
    /\ fresh = Constructed(0)
    /\ phase = "prior"
    /\ call = CallOf("vt220", Cols, Rows)

\* the object after write(bytes), t0 being the result for the current junk:
\* a write that reads nothing outside a container has one outcome
Outcome(t0, bytes, track) ==
    IF t0.oob
    THEN \E j \in JunkValues :
            SetT([write([T EXCEPT !.junk = j], bytes)
                     EXCEPT !.evicted = IF track THEN @ ELSE << >>])
    ELSE SetT([t0 EXCEPT !.evicted = IF track THEN @ ELSE << >>])

\* write(bytes) on the object; track says whether the log of evicted rows is kept
\* (a write that reads nothing outside a container has one outcome)
Call(bytes, track) ==
    /\ Outcome(write(T, bytes), bytes, track)
    /\ data' = bytes
    /\ call' = CallOf("write", 0, 0)

\* a write that is not counted: the specification is finite without it
Write(bytes) ==
    /\ Call(bytes, FALSE)
    /\ UNCHANGED << nwrites, inflight, fresh, phase >>

\* a counted write, at most limit of them
WriteN(bytes, limit, track) ==
    /\ nwrites < limit
    /\ Call(bytes, track)
    /\ nwrites' = nwrites + 1
    /\ UNCHANGED << inflight, fresh, phase >>

\* the bytes of a control sequence: CSI, the parameters, the final byte
Csi(params, final) == <<ESC, 91>> \o params \o <<final>>
\* a numeric parameter as it is sent: omitted, or its decimal digits
Params == {<< >>} \cup { Number(n) : n \in 0..MaxParam } \cup {Number(10 + MaxParam)}

(***************************************************************************)
(* Cursor movement: every sequence of movement commands, of any length,    *)
(* with every parameter up to MaxParam, from the reset terminal.           *)
(***************************************************************************)
MoveCUU == \E p \in Params : Write(Csi(p, 65))
MoveCUD == \E p \in Params : Write(Csi(p, 66))
MoveCUF == \E p \in Params : Write(Csi(p, 67))
MoveCUB == \E p \in Params : Write(Csi(p, 68))
MoveCNL == \E p \in Params : Write(Csi(p, 69))
MoveCPL == \E p \in Params : Write(Csi(p, 70))
MoveCHA == \E p \in Params : Write(Csi(p, 71))
MoveCUP == \E p \in Params, q \in Params : Write(Csi(p \o <<59>> \o q, 72))
MoveCUPShort == \E p \in Params : Write(Csi(p, 72))
MoveHVP == \E p \in Params, q \in Params : Write(Csi(p \o <<59>> \o q, 102))
MoveVPA == \E p \in Params : Write(Csi(p, 100))
MoveBS == Write(<<BS>>)
MoveCR == Write(<<CR>>)

NextMove ==
    \/ MoveCUU \/ MoveCUD \/ MoveCUF \/ MoveCUB \/ MoveCNL \/ MoveCPL
    \/ MoveCHA \/ MoveCUP \/ MoveCUPShort \/ MoveHVP \/ MoveVPA
    \/ MoveBS \/ MoveCR

SpecMove == Init /\ [][NextMove]_vars

\* C1: after every cursor movement command, whatever its parameters, the
\* cursor row is in [0, rows-1] and the cursor column, committed and pending,
\* is in [0, columns-1]
ClampInvariant ==
    /\ m_cursor.y \in 0..(m_height - 1)
    /\ m_cursor.x \in 0..(m_width - 1)
    /\ m_cursor.newx \in 0..(m_width - 1)

\* C1 witness: cursor down by more rows than the screen has stopped at the
\* last row, after a cursor forward had stopped at the last column
ClampWitness ==
    /\ data = Csi(Number(10 + MaxParam), 66)
    /\ m_cursor.y = m_height - 1
    /\ m_cursor.newx = m_width - 1

(***************************************************************************)
(* Printing: a stream of printable characters, written one byte per call,  *)
(* with autowrap as the reset leaves it (enabled).                         *)
(***************************************************************************)
\* "a", U+00E9, U+0301 (non-spacing mark), U+20DD (enclosing mark), in UTF-8
PrintChars == { <<97>>, <<195, 169>>, <<204, 129>>, <<226, 131, 157>> }

\* the first byte of the next character of the stream
PrintFirst ==
    /\ inflight = << >>
    /\ nwrites < MaxWrites
    /\ \E c \in PrintChars : Call(<<c[1]>>, FALSE) /\ inflight' = Tail(c)
    /\ nwrites' = nwrites + 1
    /\ UNCHANGED << fresh, phase >>

\* the next byte of the character under way
PrintRest ==
    /\ inflight # << >>
    /\ nwrites < MaxWrites
    /\ Call(<<Head(inflight)>>, FALSE)
    /\ inflight' = Tail(inflight)
    /\ nwrites' = nwrites + 1
    /\ UNCHANGED << fresh, phase >>

NextPrint == PrintFirst \/ PrintRest

SpecPrint == Init /\ [][NextPrint]_vars

\* C2: with autowrap enabled, after every byte of a stream of printable
\* characters the committed column is in [0, columns-1], the pending column
\* is in [0, columns], and no cell was written in a column >= columns
WrapInvariant ==
    m_mode.decawm =>
        /\ m_cursor.x \in 0..(m_width - 1)
        /\ m_cursor.newx \in 0..m_width
        /\ \A r \in 1..Len(m_screen) : Len(m_screen[r].cells) = m_width
        /\ ~oob

\* the same for a stream in which no enclosing mark has been placed: the
\* enclosing mark is the one character that advances by two columns from
\* the committed column
WrapInvariantOtherwise ==
    (\A r \in 1..Len(m_screen) : \A x \in 1..Len(m_screen[r].cells) :
        category(m_screen[r].cells[x].mark) # "Mark_Enclosing")
    => WrapInvariant

(***************************************************************************)
(* Scrolling: characters and line feeds with the scroll region at its      *)
(* full height; the rows pushed to the scrollback are logged in evicted.   *)
(***************************************************************************)
ScrollType == \E c \in {97, 98} : WriteN(<<c>>, MaxWrites, TRUE)
ScrollLF == WriteN(<<LF>>, MaxWrites, TRUE)
ScrollIND == WriteN(<<ESC, 68>>, MaxWrites, TRUE)

NextScroll == ScrollType \/ ScrollLF \/ ScrollIND

SpecScroll == Init /\ [][NextScroll]_vars

\* the last n elements of a sequence
LastN(q, n) == SubSeq(q, Len(q) - n + 1, Len(q))

\* C3: the scrollback never holds more rows than its bound, and it holds the
\* most recently evicted rows, oldest first: all of them up to the bound,
\* the last "bound" of them beyond it
ScrollbackBound ==
    /\ Len(m_backlog) <= m_misc.backlog_max
    /\ m_backlog = LastN(evicted, Min(Len(evicted), m_misc.backlog_max))

\* C3 witness: more rows than the bound were evicted, with different content
ScrollbackWitness ==
    /\ Len(evicted) > m_misc.backlog_max
    /\ Len(m_backlog) = m_misc.backlog_max
    /\ m_backlog[1] # m_backlog[Len(m_backlog)]
    /\ evicted[1] # m_backlog[1]

(***************************************************************************)
(* Palette: ESC ] P, an index digit and six colour digits, then further    *)
(* bytes; ESC ] R resets the palette.                                      *)
(***************************************************************************)
\* "1", "F", "a"
HexDigits == {49, 70, 97}
\* the value of a hexadecimal digit
HexValue(ch) ==
    IF ch \in 48..57 THEN ch - 48
    ELSE IF ch \in 65..70 THEN ch - 55
    ELSE ch - 87

SetPalette(i, r, g, b) == <<ESC, 93, 80, i>> \o r \o g \o b

\* two-digit colour components
Components == { <<70, 48>>, <<49, 97>> }

PaletteSet ==
    \E i \in {49, 70} : \E r \in Components, g \in Components, b \in Components :
        WriteN(SetPalette(i, r, g, b), MaxSteps, FALSE)
PaletteByte == \E ch \in HexDigits \cup {ESC} : WriteN(<<ch>>, MaxSteps, FALSE)
PaletteReset == WriteN(<<ESC, 93, 82>>, MaxSteps, FALSE)

NextPalette == PaletteSet \/ PaletteByte \/ PaletteReset

SpecPalette == Init /\ [][NextPalette]_vars

\* C4: when ESC ] P, an index digit and six hexadecimal digits are written
\* to a terminal in the Normal state, the seventh value sets
\* palette[index] to the RGB value and the parser is back in Normal
PaletteSetEffect ==
    (/\ nwrites = 1
     /\ Len(data) = 10
     /\ SubSeq(data, 1, 3) = <<ESC, 93, 80>>)
    => /\ m_state = "ESnormal"
       /\ m_pal[HexValue(data[4])] =
              << HexValue(data[5]) * 16 + HexValue(data[6]),
                 HexValue(data[7]) * 16 + HexValue(data[8]),
                 HexValue(data[9]) * 16 + HexValue(data[10]) >>

(***************************************************************************)
(* Reset: writes to a used terminal, a reset (term_reset called by the     *)
(* owner, or ESC c), then writes that a second, just constructed terminal  *)
(* receives as well.                                                       *)
(***************************************************************************)
ResetBytes ==
    { <<88>>, <<LF>>, <<SO>>, <<ESC>>, <<195>>,
      <<ESC, 55>>, <<ESC, 56>>, <<ESC, 72>>,
      <<ESC, 32, 70>>, <<ESC, 40, 48>>, <<ESC, 37, 64>>,
      Csi(<<50, 59, 50>>, 72), Csi(<<50, 59, 51>>, 114),
      Csi(<<49>>, 109), Csi(<<52>>, 104),
      Csi(<<63, 54>>, 104), Csi(<<63, 55>>, 108),
      <<ESC, 93, 80, 49, 70, 70>> }

ResetPrior ==
    /\ phase = "prior"
    /\ \E bytes \in ResetBytes : WriteN(bytes, MaxPrior, FALSE)

\* the owner calls term_reset with the size the terminal has
ResetCall ==
    /\ phase = "prior"
    /\ SetT([term_reset(T, m_width, m_height) EXCEPT
                !.term_response = << >>, !.decoded = << >>])
    /\ data' = << >>
    /\ nwrites' = 0
    /\ phase' = "after"
    /\ call' = CallOf("term_reset", m_width, m_height)
    /\ UNCHANGED << inflight, fresh >>

\* ESC c, received when the parser takes ESC as the start of a sequence
ResetESC ==
    /\ phase = "prior"
    /\ m_state = "ESnormal"
    /\ Call(<<ESC, 99>>, FALSE)
    /\ nwrites' = 0
    /\ phase' = "after"
    /\ UNCHANGED << inflight, fresh >>

ResetAfter ==
    /\ phase = "after"
    /\ nwrites < MaxAfter
    /\ \E bytes \in ResetBytes :
          /\ Call(bytes, FALSE)
          /\ fresh' = write(fresh, bytes)
    /\ nwrites' = nwrites + 1
    /\ UNCHANGED << inflight, phase >>

NextReset == ResetPrior \/ ResetCall \/ ResetESC \/ ResetAfter

SpecReset == Init /\ [][NextReset]_vars

\* C5: whatever was written before the reset, the cells and the cursor after
\* reset and the writes W equal those of a fresh terminal after W
ResetEquivalence ==
    phase = "after" =>
        /\ m_screen = fresh.m_screen
        /\ m_cursor = fresh.m_cursor

\* C6: right after a reset the parser state, the decoder, every mode flag
\* (7-bit/8-bit control transmission among them), the G0-G3 designations
\* and the shift state, the tab stops, the palette, the scroll region, the
\* current attributes, the cells, the cursor and the scrollback have the
\* values of a just constructed terminal
ResetRestoresDefaults ==
    (phase = "after" /\ nwrites = 0) =>
        LET c == Constructed(0)
        IN  /\ m_state = c.m_state
            /\ m_utf = c.m_utf
            /\ m_mode = c.m_mode
            /\ m_gmaps = c.m_gmaps
            /\ m_trans = c.m_trans
            /\ m_shift = c.m_shift
            /\ m_tabstop = c.m_tabstop
            /\ m_pal = c.m_pal
            /\ m_top = c.m_top
            /\ m_bottom = c.m_bottom
            /\ m_att = c.m_att
            /\ m_screen = c.m_screen
            /\ m_cursor = c.m_cursor
            /\ m_backlog = c.m_backlog

\* the same with the control transmission flag, which term_reset does not
\* assign, left out
ResetRestoresOtherwise ==
    (phase = "after" /\ nwrites = 0) =>
        LET c == Constructed(0)
        IN  /\ m_state = c.m_state
            /\ m_utf = c.m_utf
            /\ [m_mode EXCEPT !.s8c1t = TRUE] = c.m_mode
            /\ m_gmaps = c.m_gmaps
            /\ m_trans = c.m_trans
            /\ m_shift = c.m_shift
            /\ m_tabstop = c.m_tabstop
            /\ m_pal = c.m_pal
            /\ m_top = c.m_top
            /\ m_bottom = c.m_bottom
            /\ m_att = c.m_att
            /\ m_screen = c.m_screen
            /\ m_cursor = c.m_cursor
            /\ m_backlog = c.m_backlog

(***************************************************************************)
(* Decoding: one write of a short byte stream to the terminal as the       *)
(* reset leaves it (UTF-8 mode, nothing pending).                          *)
(***************************************************************************)
\* "A", LF, continuation bytes, and lead bytes of every length
UtfBytes == {65, LF, 128, 169, 193, 195, 224, 240, 248, 255}

UtfWrite ==
    /\ nwrites = 0
    /\ \E n \in 1..MaxStream : \E bytes \in [1..n -> UtfBytes] :
          WriteN(bytes, 1, FALSE)

NextUtf == UtfWrite

SpecUtf == Init /\ [][NextUtf]_vars

IsCont(b) == b \in 128..191
\* the well-formed sequences of two, three and four bytes
WellFormed2(s) ==
    /\ Len(s) = 2
    /\ s[1] \in 194..223
    /\ IsCont(s[2])
WellFormed3(s) ==
    /\ Len(s) = 3
    /\ s[1] \in 224..239
    /\ IsCont(s[2]) /\ IsCont(s[3])
    /\ s[1] = 224 => s[2] >= 160
    /\ s[1] = 237 => s[2] <= 159
WellFormed4(s) ==
    /\ Len(s) = 4
    /\ s[1] \in 240..244
    /\ IsCont(s[2]) /\ IsCont(s[3]) /\ IsCont(s[4])
    /\ s[1] = 240 => s[2] >= 144
    /\ s[1] = 244 => s[2] <= 143
\* the overlong ones: complete, but encoding a value a shorter form holds
Overlong2(s) == Len(s) = 2 /\ s[1] \in 192..193 /\ IsCont(s[2])
Overlong3(s) ==
    /\ Len(s) = 3
    /\ s[1] = 224
    /\ s[2] \in 128..159 /\ IsCont(s[3])
Overlong4(s) ==
    /\ Len(s) = 4
    /\ s[1] = 240
    /\ s[2] \in 128..143 /\ IsCont(s[3]) /\ IsCont(s[4])
\* the code point of a well-formed sequence
CodePoint(s) ==
    IF Len(s) = 2 THEN (s[1] - 192) * 64 + (s[2] - 128)
    ELSE IF Len(s) = 3
    THEN (s[1] - 224) * 4096 + (s[2] - 128) * 64 + (s[3] - 128)
    ELSE (s[1] - 240) * 262144 + (s[2] - 128) * 4096
             + (s[3] - 128) * 64 + (s[4] - 128)
\* n times Pending
Pendings(n) == [i \in 1..n |-> Pending]

\* C9: a byte below 0x80 decodes to itself; a well-formed sequence of two,
\* three or four bytes yields Pending for each byte but the last and then
\* its code point; an overlong sequence yields Invalid; and after a
\* completed or aborted sequence nothing is pending
DecodeCorrect ==
    /\ (Len(data) = 1 /\ data[1] < 128) =>
            decoded = <<Yield(data[1])>> /\ m_utf.more = 0
    /\ (WellFormed2(data) \/ WellFormed3(data) \/ WellFormed4(data)) =>
            /\ decoded = Pendings(Len(data) - 1) \o <<Yield(CodePoint(data))>>
            /\ m_utf.more = 0
    /\ (Overlong2(data) \/ Overlong3(data) \/ Overlong4(data)) =>
            /\ decoded = Pendings(Len(data) - 1) \o <<Yield(UC_REPLACE)>>
            /\ m_utf.more = 0
    /\ (decoded # << >> /\ decoded[Len(decoded)] # Pending) =>
            m_utf.more = 0

\* C9 witness: C3 A9 decoded as Pending and then U+00E9
DecodeWitness ==
    /\ data = <<195, 169>>
    /\ decoded = <<Pending, Yield(233)>>
    /\ m_utf.more = 0

\* C8: with nothing pending, every byte 0xF8..0xFF yields Invalid at once
\* and leaves nothing pending
InvalidLeadRejected ==
    (Len(data) = 1 /\ data[1] \in 248..255) =>
        decoded = <<Yield(UC_REPLACE)>> /\ m_utf.more = 0

\* the same for the two bytes that are no lead byte of any length
InvalidLeadOtherwise ==
    (Len(data) = 1 /\ data[1] \in 254..255) =>
        decoded = <<Yield(UC_REPLACE)>> /\ m_utf.more = 0

\* the cells holding a given code
CellsWith(code) ==
    { <<r, x>> \in (1..Len(m_screen)) \X (1..m_width) :
          m_screen[r].cells[x].code = code }

\* C7: when a byte that is no continuation arrives while continuation bytes
\* are expected, one replacement character is placed on the screen and the
\* byte is then processed as fresh input: a printable one is printed after
\* the replacement character, LF moves the cursor down
TruncatedSequence ==
    (/\ Len(data) = 2
     /\ data[1] \in {195, 224, 240}
     /\ data[2] \in {65, LF}) =>
        /\ CellsWith(UC_REPLACE) = { <<1, 1>> }
        /\ data[2] = 65 => m_screen[1].cells[2].code = 65
        /\ data[2] = LF => m_cursor.y = 1

\* the same for a printable offending byte alone
TruncatedSequencePrintable ==
    (/\ Len(data) = 2
     /\ data[1] \in {195, 224, 240}
     /\ data[2] = 65) =>
        /\ CellsWith(UC_REPLACE) = { <<1, 1>> }
        /\ m_screen[1].cells[2].code = 65

(***************************************************************************)
(* Erasing: text, a rendition, cursor positioning and erase in line.       *)
(***************************************************************************)
\* n characters "abab..."
Text(n) == [i \in 1..n |-> IF i % 2 = 1 THEN 97 ELSE 98]

\* two characters, or one more than the screen holds: the top row scrolls
\* into the scrollback
EraseType == \E n \in {2, Cols * Rows + 1} : WriteN(Text(n), MaxSteps, FALSE)
\* SGR 7: inverse
EraseSGR == WriteN(Csi(<<55>>, 109), MaxSteps, FALSE)
EraseCUP ==
    \E r \in 1..Rows, c \in 1..Cols :
        WriteN(Csi(Number(r) \o <<59>> \o Number(c), 72), MaxSteps, FALSE)
\* CSI K and CSI 0 K
ELBytes == { Csi(<< >>, 75), Csi(<<48>>, 75) }
EraseEL == \E bytes \in ELBytes : WriteN(bytes, MaxSteps, FALSE)

NextErase == EraseType \/ EraseSGR \/ EraseCUP \/ EraseEL

SpecErase == Init /\ [][NextErase]_vars

SgrParams == {<< >>} \cup { Number(n) : n \in {0, 1, 7, 22, 31, 38, 42} }

\* the parameter strings: one, two, or "bold, foreground red, reset-all"
SgrLists ==
    SgrParams
    \cup { p \o <<59>> \o q : p \in SgrParams, q \in SgrParams }
    \cup { Number(1) \o <<59>> \o Number(31) \o <<59>> \o Number(0) }

\* the parameter strings whose last parameter is 0 or omitted (which reads 0)
SgrResetLists ==
    { l \in SgrLists :
        \/ l = << >>
        \/ l[Len(l)] = 59
        \/ l[Len(l)] = 48 /\ (Len(l) = 1 \/ l[Len(l) - 1] = 59) }

SgrSet == \E l \in SgrLists : WriteN(Csi(l, 109), MaxSteps, FALSE)
SgrDefault == WriteN(Csi(<<56>>, 93), MaxSteps, FALSE)
SgrType == WriteN(<<97>>, MaxSteps, FALSE)

NextSgr == SgrSet \/ SgrDefault \/ SgrType

SpecSgr == Init /\ [][NextSgr]_vars

\* C11: after an SGR sequence that ends in parameter 0, whatever renditions
\* were set before it (in the same or in earlier sequences), the current
\* attributes equal the default attributes in every field
SgrResetAll ==
    (\E l \in SgrResetLists : data = Csi(l, 109)) => m_att = m_def

\* C11 witness: bold was made part of the default; bold, red, reset-all
\* then left the current attributes equal to that default
SgrResetWitness ==
    /\ data = Csi(Number(1) \o <<59>> \o Number(31) \o <<59>> \o Number(0), 109)
    /\ "bold" \in m_def.flags
    /\ m_att = m_def

(***************************************************************************)
(* Scroll regions: set the region, place the cursor on a row, type, and    *)
(* feed lines.                                                             *)
(***************************************************************************)
RegionSet ==
    \E a \in 1..Rows, b \in 1..Rows :
        WriteN(Csi(Number(a) \o <<59>> \o Number(b), 114), MaxRegion, FALSE)
RegionRow == \E r \in 1..Rows : WriteN(Csi(Number(r), 100), MaxRegion, FALSE)
RegionType == \E c \in {97, 98} : WriteN(<<c>>, MaxRegion, FALSE)
RegionLF == WriteN(<<LF>>, MaxRegion, FALSE)

NextRegion == RegionSet \/ RegionRow \/ RegionType \/ RegionLF

SpecRegion == Init /\ [][NextRegion]_vars

\* the scroll region is a proper part of the screen
ProperRegion ==
    /\ 0 <= m_top /\ m_top < m_bottom /\ m_bottom <= m_height
    /\ ~(m_top = 0 /\ m_bottom = m_height)

\* C12: a line feed with the cursor on the last row of a proper scroll
\* region moves the region's rows but the first up by one, blanks the
\* region's last row, and leaves the rows outside the region, the cursor row
\* and the scrollback as they were
RegionLineFeed ==
    [][ (/\ data' = <<LF>>
         /\ m_state = "ESnormal" /\ m_utf.more = 0
         /\ ProperRegion
         /\ m_cursor.y = m_bottom - 1)
        => /\ Len(m_screen') = Len(m_screen)
           /\ \A r \in 1..Len(m_screen) :
                 m_screen'[r] =
                     IF r - 1 >= m_top /\ r - 1 < m_bottom - 1 THEN m_screen[r + 1]
                     ELSE IF r - 1 = m_bottom - 1 THEN vtLine(m_width, Space(m_att))
                     ELSE m_screen[r]
           /\ m_cursor'.y = m_cursor.y
           /\ m_backlog' = m_backlog ]_vars

\* C12 witness: region rows 2..3 of 3; the line feed on row 3 moved "b" from
\* row 3 to row 2, blanked row 3 and kept "a" on row 1
RegionWitness ==
    /\ data = <<LF>>
    /\ m_top = 1 /\ m_bottom = Rows
    /\ m_cursor.y = Rows - 1
    /\ m_screen[1].cells[1].code = 97
    /\ m_screen[Rows - 1].cells[1].code = 98
    /\ \A x \in 1..m_width : m_screen[Rows].cells[x].code = 32

(***************************************************************************)
(* Resizing: the host calls term_set_size, term_set_columns or             *)
(* term_set_rows between writes that type text, feed lines and set a       *)
(* scroll region.                                                          *)
(***************************************************************************)
\* the widths and heights asked for: negative, zero, smaller, larger, and
\* for the heights also equal
Widths == {0 - 1, 0, Cols - 1, Cols + 1}
Heights == {0 - 1, 0} \cup ((Rows - 2)..(Rows + 1))
\* the sizes asked for in one call: both negative, or neither
Sizes == ((Widths \ {0 - 1}) \X (Heights \ {0 - 1})) \cup {<<0 - 1, 0 - 1>>}

ResizeOps == {"term_set_size", "term_set_columns", "term_set_rows"}

\* the object becomes t by the call op(w, h)
Resized(t, op, w, h) ==
    /\ nwrites < MaxSteps + MaxResize
    /\ SetT(t)
    /\ call' = CallOf(op, w, h)
    /\ data' = << >>
    /\ nwrites' = nwrites + 1
    /\ UNCHANGED << inflight, fresh, phase >>

ResizeSize ==
    \E s \in Sizes :
        Resized(term_set_size(T, s[1], s[2]), "term_set_size", s[1], s[2])
ResizeColumns ==
    \E w \in Widths : Resized(term_set_columns(T, w), "term_set_columns", w, 0)
ResizeRows ==
    \E h \in Heights : Resized(term_set_rows(T, h), "term_set_rows", 0, h)

ResizeType ==
    \E n \in {2, Cols, Cols + 1, Cols * Rows + 1} : WriteN(Text(n), MaxSteps, FALSE)
ResizeLF == WriteN(<<LF>>, MaxSteps, FALSE)
ResizeRegion == WriteN(Csi(Number(1) \o <<59>> \o Number(2), 114), MaxSteps, FALSE)
\* CSI 8 ]: the current attributes become the default
ResizeDefault == WriteN(Csi(<<56>>, 93), MaxSteps, FALSE)

NextResize ==
    \/ ResizeSize \/ ResizeColumns \/ ResizeRows
    \/ ResizeType \/ ResizeLF \/ ResizeRegion \/ ResizeDefault

SpecResize == Init /\ [][NextResize]_vars

\* C13: right after a resize the cursor row is in [0, rows-1], the cursor
\* column in [0, columns-1], the pending column in [0, columns] and the
\* scroll region satisfies 0 <= top < bottom <= rows; and no operation
\* indexes a row or column outside the dimensions
ResizeReclamps ==
    /\ call.op \in ResizeOps =>
          /\ m_cursor.y \in 0..(m_height - 1)
          /\ m_cursor.x \in 0..(m_width - 1)
          /\ m_cursor.newx \in 0..m_width
          /\ 0 <= m_top /\ m_top < m_bottom /\ m_bottom <= m_height
    /\ ~oob

\* the part of it about the scroll region
ResizeRegionReset ==
    call.op \in ResizeOps =>
        (0 <= m_top /\ m_top < m_bottom /\ m_bottom <= m_height)

\* the call asks for zero or negative rows or columns
Degenerate(c) ==
    \/ c.op = "term_set_size" /\ (c.w <= 0 \/ c.h <= 0)
    \/ c.op = "term_set_columns" /\ c.w <= 0
    \/ c.op = "term_set_rows" /\ c.h <= 0

\* C14: a resize call that asks for zero or negative rows or columns leaves
\* the column count, the row count, the screen, the scrollback and the
\* scroll region as they were
ResizeRejectsDegenerate ==
    [][ Degenerate(call')
        => UNCHANGED << m_width, m_height, m_screen, m_backlog, m_top, m_bottom >>
      ]_vars

\* the same for term_set_rows alone, which returns at once
ResizeRowsRejectsDegenerate ==
    [][ (call'.op = "term_set_rows" /\ Degenerate(call'))
        => UNCHANGED << m_width, m_height, m_screen, m_backlog, m_top, m_bottom >>
      ]_vars

\* a row of blanks with the default attributes
BlankRow == vtLine(m_width, Space(m_def))

\* C15: term_set_rows(h) with fewer rows appends the topmost rows to the
\* scrollback, top row first (the scrollback then keeps its newest
\* backlog_max rows); with more rows it takes rows back from the end of the
\* scrollback and puts them on top of the screen, in their order, until the
\* scrollback is empty, and then appends blank rows at the bottom
ResizeRowPolicy ==
    [][ (call'.op = "term_set_rows" /\ call'.h > 0)
        => LET h == call'.h
               k == IF h < m_height THEN m_height - h ELSE h - m_height
               all == m_backlog \o SubSeq(m_screen, 1, k)
               p == Min(k, Len(m_backlog))
           IN  IF h < m_height
               THEN /\ m_screen' = SubSeq(m_screen, k + 1, m_height)
                    /\ m_backlog' = LastN(all, Min(Len(all), m_misc.backlog_max))
               ELSE /\ m_screen' = LastN(m_backlog, p) \o m_screen
                                      \o [i \in 1..(k - p) |-> BlankRow]
                    /\ m_backlog' = SubSeq(m_backlog, 1, Len(m_backlog) - p)
      ]_vars

\* the same while the default attributes are those of a blank
ResizeRowPolicyBlankDefault ==
    [][ (call'.op = "term_set_rows" /\ call'.h > 0 /\ m_def = Space(m_def))
        => LET h == call'.h
               k == IF h < m_height THEN m_height - h ELSE h - m_height
               all == m_backlog \o SubSeq(m_screen, 1, k)
               p == Min(k, Len(m_backlog))
           IN  IF h < m_height
               THEN /\ m_screen' = SubSeq(m_screen, k + 1, m_height)
                    /\ m_backlog' = LastN(all, Min(Len(all), m_misc.backlog_max))
               ELSE /\ m_screen' = LastN(m_backlog, p) \o m_screen
                                      \o [i \in 1..(k - p) |-> BlankRow]
                    /\ m_backlog' = SubSeq(m_backlog, 1, Len(m_backlog) - p)
      ]_vars

\* its consequence: while the scrollback has room for k more rows,
\* term_set_rows to k rows fewer and back gives the same rows and scrollback
ResizeRoundTrip ==
    \A k \in 1..(m_height - 1) :
        Len(m_backlog) + k <= m_misc.backlog_max
        => LET t2 == term_set_rows(term_set_rows(T, m_height - k), m_height)
           IN  t2.m_screen = m_screen /\ t2.m_backlog = m_backlog

(***************************************************************************)
(* Parser: single bytes written one at a time, so that every state of the  *)
(* escape sequence parser is a state of the specification.                 *)
(***************************************************************************)
MaxParser == 4
MaxReturn == 4

\* bytes that are neither digits nor ';'
ProbeBytes == {ESC, 32, 35, 37, 40, 63, 80, 82, 91, 92, 93, 97}

ParserByte == \E ch \in ProbeBytes \cup {56, 59} : WriteN(<<ch>>, MaxParser, FALSE)
ParserString == WriteN(<<ESC, 80, 97>>, MaxParser, FALSE)

NextParser == ParserByte \/ ParserString

SpecParser == Init /\ [][NextParser]_vars

\* every run of at most k bytes of ProbeBytes written to t passes through
\* one of the states of stop
RECURSIVE Returns(_, _, _)
Returns(t, k, stop) ==
    \/ t.m_state \in stop
    \/ /\ k > 0
       /\ \A ch \in ProbeBytes : Returns(write(t, <<ch>>), k - 1, stop)

\* some run of at most k bytes of ProbeBytes written to t ends in Normal
RECURSIVE CanReturn(_, _)
CanReturn(t, k) ==
    \/ t.m_state = "ESnormal"
    \/ /\ k > 0
       /\ \E ch \in ProbeBytes : CanReturn(write(t, <<ch>>), k - 1)

\* C16: from every parser state other than the string-collecting one, Normal
\* (or the string-collecting state) is reached after at most MaxReturn bytes
\* that are neither digits nor ';', and from every state Normal is reachable
NoTrapState ==
    /\ m_state # "ESstring" => Returns(T, MaxReturn, {"ESnormal", "ESstring"})
    /\ CanReturn(T, MaxReturn)

\* the same with the palette state set apart
NoTrapOutsidePalette ==
    /\ m_state # "ESstring"
           => Returns(T, MaxReturn, {"ESnormal", "ESstring", "ESpalette"})
    /\ m_state # "ESpalette" => CanReturn(T, MaxReturn)

\* the palette state is never left
PaletteTrap == [][m_state = "ESpalette" => m_state' = "ESpalette"]_vars

PaletteReached == m_state = "ESpalette" /\ Len(m_csi_args) = 2

(***************************************************************************)
(* Dimensions: any interleaving of writes, resizes and resets.             *)
(***************************************************************************)
MaxDims == 4

DimsSizes == {<<Cols - 1, Rows - 1>>, <<Cols + 1, Rows + 1>>, <<Cols - 1, Rows + 1>>, <<0, 0>>}

\* a call that is not a write, at most MaxDims calls in all
DimsCalled(t, op, w, h) ==
    /\ nwrites < MaxDims
    /\ SetT(t)
    /\ call' = CallOf(op, w, h)
    /\ data' = << >>
    /\ nwrites' = nwrites + 1
    /\ UNCHANGED << inflight, fresh, phase >>

DimsSize ==
    \E s \in DimsSizes : DimsCalled(term_set_size(T, s[1], s[2]), "term_set_size", s[1], s[2])
DimsColumns ==
    \E w \in {0, Cols - 1, Cols + 1} : DimsCalled(term_set_columns(T, w), "term_set_columns", w, 0)
DimsRows ==
    \E h \in {0, Rows - 1, Rows + 1} : DimsCalled(term_set_rows(T, h), "term_set_rows", 0, h)
\* the owner's reset: term_reset(m_terminal, m_width, m_height)
DimsReset ==
    DimsCalled([term_reset(T, m_width, m_height) EXCEPT
                   !.term_response = << >>, !.decoded = << >>],
               "term_reset", m_width, m_height)
DimsResetESC == WriteN(<<ESC, 99>>, MaxDims, FALSE)
DimsType == \E n \in {Cols, Cols * Rows + 1} : WriteN(Text(n), MaxDims, FALSE)
DimsLF == WriteN(<<LF, LF, LF>>, MaxDims, FALSE)
\* insert and delete lines and characters, scroll up and down
DimsEdit ==
    \E final \in {64, 76, 77, 80, 83, 84} : WriteN(Csi(<<50>>, final), MaxDims, FALSE)
\* DECCOLM: 132 and 80 columns
DimsDeccolm ==
    \E final \in {104, 108} : WriteN(Csi(<<63, 51>>, final), MaxDims, FALSE)

NextDims ==
    \/ DimsSize \/ DimsColumns \/ DimsRows \/ DimsReset \/ DimsResetESC
    \/ DimsType \/ DimsLF \/ DimsEdit \/ DimsDeccolm

SpecDims == Init /\ [][NextDims]_vars

\* C17: the screen holds exactly m_height rows, every row of the screen and
\* of the scrollback holds exactly m_width cells, and the row count changes
\* only in a resize or a reset
DimensionInvariant ==
    /\ Len(m_screen) = m_height
    /\ \A y \in 1..Len(m_screen) : Len(m_screen[y].cells) = m_width
    /\ \A y \in 1..Len(m_backlog) : Len(m_backlog[y].cells) = m_width

RowCountChanges ==
    [][m_height' # m_height => call'.op \in ResizeOps \cup {"term_reset"}]_vars

DimensionWitness ==
    /\ call.op = "term_set_size"
    /\ m_width = Cols - 1
    /\ m_height = Rows - 1
    /\ Len(m_backlog) > 0
    /\ Len(m_backlog[1].cells) = m_width

(***************************************************************************)
(* Rows: relative cursor movement, line feed, index and reverse index on   *)
(* a screen with text and a scroll region.                                 *)
(***************************************************************************)
MaxStep == 4

StepParams == {<< >>, Number(0), Number(1), Number(2), Number(Rows + 1)}
\* CSI A, B, C, D, E, F
StepFinals == 65..70

StepType == \E n \in {1, Cols + 1} : WriteN(Text(n), MaxStep, FALSE)
StepRegion ==
    \E a \in 1..(Rows - 1) :
        WriteN(Csi(Number(a) \o <<59>> \o Number(a + 1), 114), MaxStep, FALSE)
StepMove ==
    \E p \in StepParams, final \in StepFinals : WriteN(Csi(p, final), MaxStep, FALSE)
\* LF, ESC D (index), ESC M (reverse index)
StepFeed ==
    \E bytes \in {<<LF>>, <<ESC, 68>>, <<ESC, 77>>} : WriteN(bytes, MaxStep, FALSE)

NextStep == StepType \/ StepRegion \/ StepMove \/ StepFeed

SpecStep == Init /\ [][NextStep]_vars

\* a step that writes CSI p final to a parser in the Normal state
MoveStep(finals) ==
    /\ m_state = "ESnormal" /\ m_utf.more = 0
    /\ \E p \in StepParams, final \in finals : data' = Csi(p, final)

\* C18: cursor up, down, forward, back, next-line and prev-line change no
\* screen cell and no scrollback row
MovementNeverScrolls ==
    [][MoveStep(StepFinals) => m_screen' = m_screen /\ m_backlog' = m_backlog]_vars

\* the same for cursor up, down, forward and back alone
CursorMovementNeverScrolls ==
    [][MoveStep(65..68) => m_screen' = m_screen /\ m_backlog' = m_backlog]_vars

\* a step that writes bytes to a parser in the Normal state
FeedStep(bytes) == m_state = "ESnormal" /\ m_utf.more = 0 /\ data' = bytes

\* the screen with the rows of the scroll region moved up by one
UpScrolled ==
    [r \in 1..Len(m_screen) |->
        IF r - 1 >= m_top /\ r - 1 < m_bottom - 1 THEN m_screen[r + 1]
        ELSE IF r - 1 = m_bottom - 1 THEN vtLine(m_width, Space(m_att))
        ELSE m_screen[r]]

\* the screen with the rows of the scroll region moved down by one
DownScrolled ==
    [r \in 1..Len(m_screen) |->
        IF r - 1 > m_top /\ r - 1 <= m_bottom - 1 THEN m_screen[r - 1]
        ELSE IF r - 1 = m_top THEN vtLine(m_width, Space(m_att))
        ELSE m_screen[r]]

\* for the cursor rows selected by where: a line feed or index scrolls up
\* exactly on the region's bottom row, a reverse index scrolls down exactly
\* on its top row; otherwise the cursor moves by one row within the screen
\* and no cell changes
FeedEffect(where) ==
    /\ (FeedStep(<<LF>>) \/ FeedStep(<<ESC, 68>>)) /\ where
           => IF m_cursor.y = m_bottom - 1
              THEN m_screen' = UpScrolled
              ELSE /\ m_screen' = m_screen
                   /\ m_backlog' = m_backlog
                   /\ m_cursor'.y = Min(m_cursor.y + 1, m_height - 1)
    /\ FeedStep(<<ESC, 77>>) /\ where
           => IF m_cursor.y = m_top
              THEN m_screen' = DownScrolled
              ELSE /\ m_screen' = m_screen
                   /\ m_backlog' = m_backlog
                   /\ m_cursor'.y = Max(m_cursor.y - 1, 0)

\* C19: line feed and index scroll the region up exactly when the cursor is
\* on the region's bottom row, reverse index scrolls it down exactly when the
\* cursor is on its top row; in every other case, the cursor above or below
\* the region included, the cursor moves by one row, clamped to the screen,
\* and no cell changes
ScrollTrigger == [][FeedEffect(TRUE)]_vars

\* the same for a cursor on a row of the scroll region
ScrollTriggerInside ==
    [][FeedEffect(m_cursor.y >= m_top /\ m_cursor.y < m_bottom)]_vars

\* CSI A, B, C, D, E, F, I, L, M and @, whose documented default is 1
DefaultOne == {65, 66, 67, 68, 69, 70, 73, 76, 77, 64}
\* CSI J and K, whose documented default is 0
DefaultZero == {74, 75}

\* the terminal without the parser's record of the last sequence
Effect(t) == [t EXCEPT !.m_csi_args = << >>, !.decoded = << >>]

\* CSI final with no parameter acts on the terminal as CSI n final does
ActsAs(final, n) ==
    Effect(write(T, Csi(<< >>, final))) = Effect(write(T, Csi(Number(n), final)))

\* C20: in the Normal state, CSI A, B, C, D, E, F, I, L, M and @ with no
\* parameter act as with parameter 1, and CSI J and K with no parameter act
\* as with parameter 0
DefaultParameters ==
    m_state = "ESnormal" /\ m_utf.more = 0
        => /\ \A final \in DefaultOne : ActsAs(final, 1)
           /\ \A final \in DefaultZero : ActsAs(final, 0)

\* what the parser does: no parameter acts as parameter 0 in all of them
OmittedIsZero ==
    m_state = "ESnormal" /\ m_utf.more = 0
        => \A final \in DefaultOne \cup DefaultZero : ActsAs(final, 0)

(***************************************************************************)
(* Origin: absolute and relative cursor positioning with origin mode set   *)
(* and reset and with a scroll region.                                     *)
(***************************************************************************)
MaxOrigin == 4

\* the values of a row or column parameter
OriginValues == {0, 1, 2, Rows, Rows + 1}
OriginParams == {<< >>} \cup { Number(n) : n \in OriginValues }

\* CSI ? 6 h and CSI ? 6 l
OriginMode == \E final \in {104, 108} : WriteN(Csi(<<63, 54>>, final), MaxOrigin, FALSE)
OriginRegion ==
    \E r \in {<<1, 2>>, <<2, 3>>, <<1, 3>>, <<0, 2>>} :
        WriteN(Csi(Number(r[1]) \o <<59>> \o Number(r[2]), 114), MaxOrigin, FALSE)
\* CSI row ; column H and f
OriginCUP ==
    \E p \in OriginParams, q \in OriginParams, final \in {72, 102} :
        WriteN(Csi(p \o <<59>> \o q, final), MaxOrigin, FALSE)
\* CSI row d
OriginVPA == \E p \in OriginParams : WriteN(Csi(p, 100), MaxOrigin, FALSE)
\* CSI column G and `
OriginCHA ==
    \E p \in OriginParams, final \in {71, 96} : WriteN(Csi(p, final), MaxOrigin, FALSE)
\* CSI n A, B, C, D, E, F
OriginMove ==
    \E p \in {<< >>, Number(1), Number(Rows + 1)}, final \in 65..70 :
        WriteN(Csi(p, final), MaxOrigin, FALSE)

NextOrigin ==
    \/ OriginMode \/ OriginRegion \/ OriginCUP \/ OriginVPA \/ OriginCHA \/ OriginMove

SpecOrigin == Init /\ [][NextOrigin]_vars

\* a step that writes CSI n final, final in finals, to a parser in the
\* Normal state moves the cursor to the column col(n), the row unchanged
ColumnStep(finals, col(_)) ==
    \A n \in OriginValues, final \in finals :
        FeedStep(Csi(Number(n), final))
            => /\ m_cursor'.x = qBound(0, col(n), m_width - 1)
               /\ m_cursor'.newx = m_cursor'.x
               /\ m_cursor'.y = m_cursor.y

\* C21: CSI Ps G and CSI Ps ` move the cursor to the 0-based column Ps - 1
\* clamped to [0, columns-1], the row unchanged, and CSI G places it in the
\* first column as CSI 1 G does
AbsoluteColumn ==
    [][ /\ ColumnStep({71, 96}, LAMBDA n : n - 1)
        /\ \A final \in {71, 96} :
              FeedStep(Csi(<< >>, final)) => m_cursor'.x = 0 /\ m_cursor'.newx = 0 ]_vars

\* what the code does: the parameter is taken as the 0-based column
AbsoluteColumnFromZero ==
    [][ColumnStep({71, 96}, LAMBDA n : n)]_vars

\* the cursor row is in the scroll region while origin mode is active, and
\* on the screen while it is not
OriginRows ==
    IF m_mode.decom THEN m_cursor.y \in m_top..(m_bottom - 1)
    ELSE m_cursor.y \in 0..(m_height - 1)

\* absolute positioning takes its row from the top of the scroll region in
\* origin mode; setting and resetting origin mode homes the cursor
OriginSteps ==
    /\ \A r \in OriginValues, c \in OriginValues, final \in {72, 102} :
          FeedStep(Csi(Number(r) \o <<59>> \o Number(c), final))
              => /\ m_cursor'.y =
                        IF m_mode.decom
                        THEN qBound(m_top, m_top + r - 1, m_bottom - 1)
                        ELSE qBound(0, r - 1, m_height - 1)
                 /\ m_cursor'.x = qBound(0, c - 1, m_width - 1)
    /\ \A r \in OriginValues :
          FeedStep(Csi(Number(r), 100))
              => m_cursor'.y =
                     IF m_mode.decom
                     THEN qBound(m_top, m_top + r - 1, m_bottom - 1)
                     ELSE qBound(0, r - 1, m_height - 1)
    /\ FeedStep(Csi(<<63, 54>>, 104))
          => m_mode'.decom /\ m_cursor'.x = 0 /\ m_cursor'.newx = 0 /\ m_cursor'.y = m_top
    /\ FeedStep(Csi(<<63, 54>>, 108))
          => ~m_mode'.decom /\ m_cursor'.x = 0 /\ m_cursor'.newx = 0 /\ m_cursor'.y = 0

\* C22: in origin mode the row of absolute positioning counts from the top
\* of the scroll region and the cursor row stays in [top, bottom-1] after
\* every positioning and movement command; out of origin mode the row is in
\* [0, rows-1]; setting or resetting origin mode homes the cursor
OriginClamp == []OriginRows /\ [][OriginSteps]_vars

\* C22 witness: origin mode with the region rows 2..3; CSI 2;1 H placed the
\* cursor on the region's second row, the screen's third
OriginWitness ==
    /\ m_mode.decom
    /\ m_top = 1 /\ m_bottom = Rows
    /\ data = Csi(Number(2) \o <<59>> \o Number(1), 72)
    /\ m_cursor.y = 2

(***************************************************************************)
(* Right edge: rows filled up to the last column, then one more character, *)
(* with autowrap set and reset, on every row, with a scroll region.        *)
(***************************************************************************)
MaxEdge == 5

\* exactly m_width characters
EdgeFill == WriteN(Text(Cols), MaxEdge, FALSE)
EdgeType == \E c \in {99, 100} : WriteN(<<c>>, MaxEdge, FALSE)
\* CSI ? 7 h and CSI ? 7 l
EdgeWrap == \E final \in {104, 108} : WriteN(Csi(<<63, 55>>, final), MaxEdge, FALSE)
EdgeRegion ==
    \E a \in 1..(Rows - 1) :
        WriteN(Csi(Number(a) \o <<59>> \o Number(a + 1), 114), MaxEdge, FALSE)
EdgeRow == \E r \in 1..Rows : WriteN(Csi(Number(r), 100), MaxEdge, FALSE)

NextEdge == EdgeFill \/ EdgeType \/ EdgeWrap \/ EdgeRegion \/ EdgeRow

SpecEdge == Init /\ [][NextEdge]_vars

\* the screen s with the cell of column x (0-based) of row y replaced by att
WithCell(s, x, y, att) == [s EXCEPT ![y + 1].cells[x + 1] = att]

\* a character written while the pending column is at the right edge, the
\* cursor on a row selected by where
EdgeEffect(where) ==
    \A c \in {99, 100} :
        FeedStep(<<c>>) /\ m_cursor.newx >= m_width /\ where
            => /\ m_att'.code = c
               /\ IF m_mode.decawm
                  THEN /\ m_cursor'.x = 0 /\ m_cursor'.newx = 1
                       /\ IF m_cursor.y = m_bottom - 1
                          THEN /\ m_cursor'.y = m_cursor.y
                               /\ m_screen' = WithCell(UpScrolled, 0, m_cursor.y, m_att')
                          ELSE /\ m_cursor'.y = Min(m_cursor.y + 1, m_height - 1)
                               /\ m_screen' = WithCell(m_screen, 0, m_cursor'.y, m_att')
                               /\ m_backlog' = m_backlog
                  ELSE /\ m_cursor'.x = m_width - 1 /\ m_cursor'.newx = m_width
                       /\ m_cursor'.y = m_cursor.y
                       /\ m_screen' = WithCell(m_screen, m_width - 1, m_cursor.y, m_att')
                       /\ m_backlog' = m_backlog

\* exactly m_width characters written from column 0 fill the cursor row and
\* leave the pending column at the right edge
FillEffect ==
    FeedStep(Text(Cols)) /\ m_cursor.newx = 0
        => /\ m_cursor'.y = m_cursor.y
           /\ m_cursor'.x = m_width - 1 /\ m_cursor'.newx = m_width
           /\ m_backlog' = m_backlog
           /\ \A r \in 1..Len(m_screen) :
                 IF r - 1 = m_cursor.y
                 THEN \A x \in 1..m_width : m_screen'[r].cells[x].code = Text(Cols)[x]
                 ELSE m_screen'[r] = m_screen[r]

\* C23: a character that arrives with the pending column at the right edge
\* is placed, with autowrap, in column 0 of the next row after a carriage
\* return and a line feed that scrolls on the region's bottom row, and
\* without autowrap in the last column of the same row; exactly m_width
\* characters written into a row neither wrap nor scroll
RightEdge == [][EdgeEffect(TRUE) /\ FillEffect]_vars

\* the same for a cursor on a row of the scroll region
RightEdgeInside ==
    [][EdgeEffect(m_cursor.y >= m_top /\ m_cursor.y < m_bottom) /\ FillEffect]_vars

(***************************************************************************)
(* Marks: combining marks written after a character, a carriage return, a  *)
(* cursor positioning command or a backspace.                              *)
(***************************************************************************)
MaxMark == 4

\* U+0301 (non-spacing), U+20DD (enclosing), U+0903 (spacing combining)
MarkBytes == { <<204, 129>>, <<226, 131, 157>>, <<224, 164, 131>> }
NarrowMarkBytes == { <<204, 129>>, <<224, 164, 131>> }

MarkMark == \E bytes \in MarkBytes : WriteN(bytes, MaxMark, FALSE)
MarkType == \E c \in {97, 98} : WriteN(<<c>>, MaxMark, FALSE)
MarkCR == WriteN(<<CR>>, MaxMark, FALSE)
MarkBack == WriteN(<<BS>>, MaxMark, FALSE)
MarkCUP == \E c \in 1..Cols : WriteN(Csi(<<50, 59>> \o Number(c), 72), MaxMark, FALSE)

NextMark == MarkMark \/ MarkType \/ MarkCR \/ MarkBack \/ MarkCUP

SpecMark == Init /\ [][NextMark]_vars

\* a mark of marks, written in a state selected by where, changes only the
\* mark and the width of the cell under the cursor
MarkEffect(marks, where) ==
    \A bytes \in marks :
        FeedStep(bytes) /\ where
            => /\ m_cursor'.x = m_cursor.x
               /\ m_cursor'.newx = m_cursor.newx
               /\ m_cursor'.y = m_cursor.y
               /\ m_backlog' = m_backlog
               /\ \E mark \in {769, 8413, 2307}, width \in {1, 2} :
                     m_screen' = WithCell(m_screen, m_cursor.x, m_cursor.y,
                                     [m_screen[m_cursor.y + 1].cells[m_cursor.x + 1]
                                         EXCEPT !.mark = mark, !.width = width])

\* C24: a non-spacing, enclosing or spacing-combining mark is attached to a
\* cell and leaves the cursor column and the pending column as they were, in
\* every state
MarksDoNotAdvance == [][MarkEffect(MarkBytes, TRUE)]_vars

\* the same for the marks of width 1 written while the pending column is the
\* one after the cursor column, as it is directly after a printed character
MarksAfterCharacter ==
    [][MarkEffect(NarrowMarkBytes, m_cursor.newx = m_cursor.x + 1)]_vars

(***************************************************************************)
(* Characters: insert, delete and erase characters in a row with text, at  *)
(* every cursor column, the pending column at the right edge included.     *)
(***************************************************************************)
MaxChars == 4

\* n different letters: "a", "ab", "abc"
Letters(n) == [i \in 1..n |-> 96 + i]
\* the counts of CSI @, CSI P and CSI X
CharCounts == {0, 1, 2, Cols + 1}

CharsType == \E n \in 1..Cols : WriteN(Letters(n), MaxChars, FALSE)
CharsCUP ==
    \E r \in 1..2, c \in 1..Cols :
        WriteN(Csi(Number(r) \o <<59>> \o Number(c), 72), MaxChars, FALSE)
\* CSI 7 m and CSI 0 m: blanks are written with the current attributes
CharsSgr == \E p \in {48, 55} : WriteN(Csi(<<p>>, 109), MaxChars, FALSE)
CharsInsert == \E n \in CharCounts : WriteN(Csi(Number(n), 64), MaxChars, FALSE)
CharsDelete == \E n \in CharCounts : WriteN(Csi(Number(n), 80), MaxChars, FALSE)
CharsErase ==
    \E p \in {<< >>} \cup { Number(n) : n \in CharCounts } :
        WriteN(Csi(p, 88), MaxChars, FALSE)

NextChars ==
    CharsType \/ CharsCUP \/ CharsSgr \/ CharsInsert \/ CharsDelete \/ CharsErase

SpecChars == Init /\ [][NextChars]_vars

IsBlank(cell) == cell.code = 32 /\ cell.mark = 0

\* the cursor row becomes what cell says, column by column from 0, and
\* nothing else on the screen, in the scrollback or of the cursor position
\* changes; cell(x) is the column the cell of column x comes from, negative
\* for a blank
RowEffect(cell(_)) ==
    /\ m_cursor'.newx = m_cursor.newx
    /\ m_cursor'.y = m_cursor.y
    /\ m_backlog' = m_backlog
    /\ Len(m_screen') = Len(m_screen)
    /\ \A r \in 1..Len(m_screen) :
          IF r - 1 # m_cursor.y THEN m_screen'[r] = m_screen[r]
          ELSE /\ Len(m_screen'[r].cells) = m_width
               /\ \A x \in 0..(m_width - 1) :
                     IF cell(x) < 0 THEN IsBlank(m_screen'[r].cells[x + 1])
                     ELSE m_screen'[r].cells[x + 1] = m_screen[r].cells[cell(x) + 1]

\* insert-character and delete-character with the cursor in column c
InsertDeleteEffect(c) ==
    /\ \A n \in CharCounts \ {0} :
          FeedStep(Csi(Number(n), 64))
              => RowEffect(LAMBDA x : IF x < c THEN x
                                      ELSE IF x < c + n THEN 0 - 1 ELSE x - n)
    /\ \A n \in CharCounts :
          FeedStep(Csi(Number(n), 80))
              => RowEffect(LAMBDA x : IF x < c THEN x
                                      ELSE IF x + Max(n, 1) < m_width THEN x + Max(n, 1)
                                      ELSE 0 - 1)

\* C25: insert-character with count n at cursor column c shifts the cells
\* from c right by n, dropping those pushed past the last column and
\* blanking c..c+n-1; delete-character shifts the cells right of the cursor
\* left by n and blanks the vacated rightmost cells; every other row, the
\* cells left of the cursor, the cursor position and the scrollback stay
InsertDelete == [][InsertDeleteEffect(m_cursor.newx)]_vars

\* the same with the cursor column taken as a column of the screen, the last
\* one when the pending column is at the right edge
InsertDeleteOnScreen == [][InsertDeleteEffect(Min(m_cursor.newx, m_width - 1))]_vars

\* the same while the pending column is not at the right edge
InsertDeleteBeforeEdge ==
    [][m_cursor.newx < m_width => InsertDeleteEffect(m_cursor.newx)]_vars

\* CSI Ps X: the cells from the pending column c to last(c, n) are blanked,
\* n being Ps, or 1 for Ps = 0 or omitted
EraseEffect(last(_, _)) ==
    /\ \A n \in CharCounts :
          FeedStep(Csi(Number(n), 88))
              => RowEffect(LAMBDA x :
                     IF x >= m_cursor.newx /\ x <= last(m_cursor.newx, Max(n, 1))
                     THEN 0 - 1 ELSE x)
    /\ FeedStep(Csi(<< >>, 88))
          => RowEffect(LAMBDA x :
                 IF x >= m_cursor.newx /\ x <= last(m_cursor.newx, 1)
                 THEN 0 - 1 ELSE x)

\* C26: CSI Ps X with the cursor at column c blanks exactly the cells
\* c..min(c+Ps-1, columns-1) of the cursor row, Ps = 0 or omitted counting
\* as 1, and leaves every other cell, the last column included when it is
\* outside that range, every other row and the cursor unchanged
EraseCharacter == [][EraseEffect(LAMBDA c, n : Min(c + n - 1, m_width - 1))]_vars

\* what the code does: the last column is blanked as well
EraseCharacterAndLast ==
    [][ /\ \A n \in CharCounts :
              FeedStep(Csi(Number(n), 88))
                  => RowEffect(LAMBDA x :
                         IF \/ x >= m_cursor.newx /\ x <= m_cursor.newx + Max(n, 1) - 1
                            \/ x = m_width - 1
                         THEN 0 - 1 ELSE x)
        /\ FeedStep(Csi(<< >>, 88))
              => RowEffect(LAMBDA x :
                     IF x = m_cursor.newx \/ x = m_width - 1 THEN 0 - 1 ELSE x) ]_vars

\* CSI Ps J and CSI Ps K, Ps in 0..2, with the private marker "?" or without
EraseSequences(marker) ==
    { Csi(marker \o Number(ps), final) : ps \in 0..2, final \in {74, 75} }

\* C27: CSI ? Ps J and CSI ? Ps K produce the same screen as CSI Ps J and
\* CSI Ps K, for every Ps in 0..2 and every cursor position
SelectiveErase ==
    m_state = "ESnormal" /\ m_utf.more = 0
        => \A ps \in 0..2, final \in {74, 75} :
              write(T, Csi(<<63>> \o Number(ps), final)).m_screen
                  = write(T, Csi(Number(ps), final)).m_screen

\* what the code does: with the private marker nothing is erased
SelectiveEraseIgnored ==
    m_state = "ESnormal" /\ m_utf.more = 0
        => \A bytes \in EraseSequences(<<63>>) :
              /\ write(T, bytes).m_screen = m_screen
              /\ write(T, bytes).m_backlog = m_backlog

\* ED 0, 1, 2, EL 0, 1, 2 and ECH with every count
EraseOperations ==
    EraseSequences(<< >>) \cup { Csi(Number(n), 88) : n \in CharCounts }

\* no erase operation written in a state selected by where reads or writes a
\* cell outside the screen
EraseBounds(where) ==
    m_state = "ESnormal" /\ m_utf.more = 0 /\ ~oob /\ where
        => \A bytes \in EraseOperations : ~write(T, bytes).oob

\* C28: every erase operation (ED 0/1/2, EL 0/1/2, ECH), in every reachable
\* cursor state, the pending-wrap state included, reads and writes only
\* cells with 0 <= column < columns and 0 <= row < rows
EraseInBounds == EraseBounds(TRUE)

\* the same while the pending column is not at the right edge
EraseInBoundsBeforeEdge == EraseBounds(m_cursor.newx < m_width)

(***************************************************************************)
(* Margins: set-scroll-region requests with missing, zero, reversed and    *)
(* oversized parameters, the Linux console commands, insert and delete     *)
(* line, resizes and resets.                                               *)
(***************************************************************************)
MaxMargins == 4

\* the parameters of CSI r with fewer than two of them
ShortRegions == {<< >>, Number(1), Number(2)}
\* top ; bottom
FullRegions ==
    { Number(r[1]) \o <<59>> \o Number(r[2]) :
        r \in {<<1, 2>>, <<2, 3>>, <<0, 2>>, <<2, 1>>, <<2, 2>>, <<1, Rows + 1>>} }
\* the parameters of CSI ] that name the underline and the half-bright colour
ShortConsole == {Number(1), Number(2)}
FullConsole == {<<49, 59, 51>>, <<50, 59, 52>>}

MarginsShort == \E p \in ShortRegions : WriteN(Csi(p, 114), MaxMargins, FALSE)
MarginsSet == \E p \in FullRegions : WriteN(Csi(p, 114), MaxMargins, FALSE)
MarginsConsole ==
    \E p \in ShortConsole \cup FullConsole : WriteN(Csi(p, 93), MaxMargins, FALSE)
MarginsRow == \E r \in 1..Rows : WriteN(Csi(Number(r), 100), MaxMargins, FALSE)
\* CSI 1 L and CSI 1 M
MarginsLines == \E final \in {76, 77} : WriteN(Csi(<<49>>, final), MaxMargins, FALSE)
MarginsRows ==
    \E h \in {Rows - 1, Rows + 1} : DimsCalled(term_set_rows(T, h), "term_set_rows", 0, h)
MarginsReset == WriteN(<<ESC, 99>>, MaxMargins, FALSE)

NextMargins ==
    \/ MarginsShort \/ MarginsSet \/ MarginsConsole \/ MarginsRow
    \/ MarginsLines \/ MarginsRows \/ MarginsReset

SpecMargins == Init /\ [][NextMargins]_vars

\* C29: no handler reads a parameter that was not parsed: CSI r with zero or
\* one parameter reads nothing beyond the list and sets the full screen as
\* the region, and CSI 1 ] and CSI 2 ] without a second parameter read
\* nothing beyond the list
ParameterAccess ==
    [][ ~oob =>
          /\ \A p \in ShortRegions :
                FeedStep(Csi(p, 114))
                    => ~oob' /\ m_top' = 0 /\ m_bottom' = m_height
          /\ \A p \in ShortConsole : FeedStep(Csi(p, 93)) => ~oob' ]_vars

\* with both parameters present nothing is read beyond the list
ParameterAccessFull ==
    [][ ~oob =>
          /\ \A p \in FullRegions : FeedStep(Csi(p, 114)) => ~oob'
          /\ \A p \in FullConsole : FeedStep(Csi(p, 93)) => ~oob' ]_vars

\* 0 <= top < bottom <= rows
RegionInScreen == 0 <= m_top /\ m_top < m_bottom /\ m_bottom <= m_height

\* a set-region request top ; bottom that does not have 1 <= top < bottom <=
\* rows leaves the region unchanged
RegionRejected ==
    \A r \in {<<0, 2>>, <<2, 1>>, <<2, 2>>, <<1, Rows + 1>>} :
        FeedStep(Csi(Number(r[1]) \o <<59>> \o Number(r[2]), 114))
            /\ ~(1 <= r[1] /\ r[1] < r[2] /\ r[2] <= m_height)
            => m_top' = m_top /\ m_bottom' = m_bottom

\* C30: in every state reachable by byte streams, resizes and resets the
\* scroll region has 0 <= top < bottom <= rows, and a set-region request
\* that would violate this leaves the region unchanged
RegionInvariant == []RegionInScreen /\ [][RegionRejected]_vars

\* the same for requests with top >= 1: bottom <= rows and top < bottom hold
\* in every state, and the request is rejected
RegionInvariantBelow ==
    /\ [](m_top < m_bottom /\ m_bottom <= m_height)
    /\ [][\A r \in {<<2, 1>>, <<2, 2>>, <<1, Rows + 1>>} :
            FeedStep(Csi(Number(r[1]) \o <<59>> \o Number(r[2]), 114))
                /\ ~(r[1] < r[2] /\ r[2] <= m_height)
                => m_top' = m_top /\ m_bottom' = m_bottom]_vars

(***************************************************************************)
(* Lines: insert and delete lines, line feed, index and next line on a     *)
(* screen with a different text in every row, with the cursor inside,      *)
(* above and below the scroll region; the rows pushed to the scrollback    *)
(* by a scroll are logged in evicted.                                      *)
(***************************************************************************)
MaxLines == 4

\* "a", "b", "c" in column 0 of the rows 0, 1, 2, placed with CSI row ; 1 H
LineFill ==
    Csi(<<49, 59, 49>>, 72) \o <<97>> \o Csi(<<50, 59, 49>>, 72) \o <<98>>
        \o Csi(<<51, 59, 49>>, 72) \o <<99>>
\* the counts of CSI L and CSI M
LineCounts == {1, 2, Rows + 1}

LinesFill == WriteN(LineFill, MaxLines, TRUE)
LinesRegion ==
    \E r \in {<<1, 2>>, <<2, 3>>, <<1, 3>>} :
        WriteN(Csi(Number(r[1]) \o <<59>> \o Number(r[2]), 114), MaxLines, TRUE)
LinesRow == \E r \in 1..Rows : WriteN(Csi(Number(r), 100), MaxLines, TRUE)
LinesInsert == \E n \in LineCounts : WriteN(Csi(Number(n), 76), MaxLines, TRUE)
LinesDelete == \E n \in LineCounts : WriteN(Csi(Number(n), 77), MaxLines, TRUE)
\* LF, ESC D (index), ESC E (next line)
LinesFeed ==
    \E b \in {<<LF>>, <<ESC, 68>>, <<ESC, 69>>} : WriteN(b, MaxLines, TRUE)
LinesRows ==
    \E h \in {Rows - 1, Rows + 1} : DimsCalled(term_set_rows(T, h), "term_set_rows", 0, h)

NextLines ==
    \/ LinesFill \/ LinesRegion \/ LinesRow \/ LinesInsert \/ LinesDelete
    \/ LinesFeed \/ LinesRows

SpecLines == Init /\ [][NextLines]_vars

\* the screen becomes what from says, row by row, and the scroll region
\* stays; from(r) is the row the row r comes from, negative for a row of
\* blanks
RowsEffect(from(_)) ==
    /\ m_top' = m_top
    /\ m_bottom' = m_bottom
    /\ Len(m_screen') = Len(m_screen)
    /\ \A r \in 0..(m_height - 1) :
          IF from(r) < 0
          THEN /\ Len(m_screen'[r + 1].cells) = m_width
               /\ \A x \in 1..m_width : IsBlank(m_screen'[r + 1].cells[x])
          ELSE m_screen'[r + 1] = m_screen[from(r) + 1]

\* the cursor is on a row of the scroll region
CursorInRegion == m_cursor.y >= m_top /\ m_cursor.y < m_bottom

\* insert-line and delete-line with count n in the states selected by where
LineFrame(where) ==
    \A n \in LineCounts :
        /\ FeedStep(Csi(Number(n), 76)) /\ where
              => IF CursorInRegion
                 THEN RowsEffect(LAMBDA r :
                          IF r < m_cursor.y \/ r >= m_bottom THEN r
                          ELSE IF r < m_cursor.y + n THEN 0 - 1 ELSE r - n)
                 ELSE m_screen' = m_screen
        /\ FeedStep(Csi(Number(n), 77)) /\ where
              => IF CursorInRegion
                 THEN RowsEffect(LAMBDA r :
                          IF r < m_cursor.y \/ r >= m_bottom THEN r
                          ELSE IF r + n < m_bottom THEN r + n ELSE 0 - 1)
                 ELSE m_screen' = m_screen

\* C31: insert-line and delete-line with count n and the cursor on row y
\* inside the scroll region change only the rows y..bottom-1, shifting them
\* down resp. up and blanking the vacated rows, leave the rows above y and
\* from bottom on unchanged and leave the scroll region as it was; with the
\* cursor outside the scroll region they change no cell
InsertDeleteLine == [][LineFrame(TRUE)]_vars

\* the same with the cursor on a row of the scroll region
InsertDeleteLineInside == [][LineFrame(CursorInRegion)]_vars

\* what the two do with the cursor on a row of the screen outside the
\* region: the rows from the cursor row to bottom-1 are shifted as inside
\* it; below the region insert-line blanks the cursor row and delete-line
\* the region's last row
LineFrameOutside ==
    \A n \in LineCounts :
        /\ FeedStep(Csi(Number(n), 76)) /\ ~CursorInRegion /\ m_cursor.y < m_height
              => RowsEffect(LAMBDA r :
                     IF r = m_cursor.y /\ r >= m_bottom THEN 0 - 1
                     ELSE IF r < m_cursor.y \/ r >= m_bottom THEN r
                     ELSE IF r < m_cursor.y + n THEN 0 - 1 ELSE r - n)
        /\ FeedStep(Csi(Number(n), 77)) /\ ~CursorInRegion /\ m_cursor.y < m_height
              => RowsEffect(LAMBDA r :
                     IF r = m_bottom - 1 /\ m_cursor.y >= m_bottom THEN 0 - 1
                     ELSE IF r < m_cursor.y \/ r >= m_bottom THEN r
                     ELSE IF r + n < m_bottom THEN r + n ELSE 0 - 1)

InsertDeleteLineOutside == [][LineFrameOutside]_vars

\* the step appends a row to the scrollback
Appended == Len(evicted') > Len(evicted) \/ Len(m_backlog') > Len(m_backlog)

\* a line feed, index or next line is written
Feed == FeedStep(<<LF>>) \/ FeedStep(<<ESC, 68>>) \/ FeedStep(<<ESC, 69>>)
\* the scroll region is the whole screen
FullRegion == m_top = 0 /\ m_bottom = m_height
FullRegionFeed == Feed /\ FullRegion

\* a resize to fewer rows
RowShrink == call'.op = "term_set_rows" /\ call'.h < m_height

\* insert-line and delete-line leave the scrollback as it is, in the states
\* selected by where
LinesKeepScrollback(where) ==
    \A n \in LineCounts, final \in {76, 77} :
        FeedStep(Csi(Number(n), final)) /\ where
            => m_backlog' = m_backlog /\ evicted' = evicted

\* C32: a row is appended to the scrollback only by an upward scroll caused
\* by line feed, index or next line while the scroll region spans the whole
\* screen, and by a row-shrinking resize; an upward scroll of a partial
\* region, insert-line and delete-line (also on row 0 with a full-screen
\* region) leave the scrollback unchanged
ScrollbackGrowth ==
    [][ /\ Appended => FullRegionFeed \/ RowShrink
        /\ Feed /\ ~FullRegion => m_backlog' = m_backlog /\ evicted' = evicted
        /\ LinesKeepScrollback(TRUE) ]_vars

\* delete-line with the cursor on row 0 while the region ends with the screen
DeleteFromTop ==
    /\ \E n \in LineCounts : FeedStep(Csi(Number(n), 77))
    /\ m_cursor.y = 0
    /\ m_bottom = m_height

\* the same with delete-line on row 0 counted as a scroll of the screen
ScrollbackGrowthDelete ==
    [][ /\ Appended => FullRegionFeed \/ RowShrink \/ DeleteFromTop
        /\ Feed /\ ~FullRegion => m_backlog' = m_backlog /\ evicted' = evicted
        /\ LinesKeepScrollback(~DeleteFromTop) ]_vars

(***************************************************************************)
(* Strings: the string introducers SOS, DCS, PM and APC, bytes after them  *)
(* and the string terminators.                                             *)
(***************************************************************************)
MaxStrings == 4

\* ESC X (SOS), ESC P (DCS), ESC ^ (PM), ESC _ (APC)
Introducers == {<<ESC, 88>>, <<ESC, 80>>, <<ESC, 94>>, <<ESC, 95>>}
\* ESC \ and the 8 bit ST
Terminators == {<<ESC, 92>>, <<ST>>}
\* what a string may hold: text, a line feed, CSI 2 J, ESC c, CSI 4 h
Payloads == {<<97>>, <<LF>>, <<97, 98>>, <<ESC, 91, 50, 74>>, <<ESC, 99>>,
             <<ESC, 91, 52, 104>>}

StringsType == \E n \in 1..2 : WriteN(Letters(n), MaxStrings, FALSE)
StringsIntroducer == \E i \in Introducers : WriteN(i, MaxStrings, FALSE)
StringsPayload == \E p \in Payloads : WriteN(p, MaxStrings, FALSE)
StringsTerminator == \E s \in Terminators : WriteN(s, MaxStrings, FALSE)

NextStrings == StringsType \/ StringsIntroducer \/ StringsPayload \/ StringsTerminator

SpecStrings == Init /\ [][NextStrings]_vars

\* the cells, the scrollback, the cursor, the attributes, the modes, the
\* scroll region and the character sets of t are those of the object
Uninterpreted(t) ==
    /\ t.m_screen = m_screen
    /\ t.m_backlog = m_backlog
    /\ t.m_cursor = m_cursor
    /\ t.m_att = m_att
    /\ t.m_mode = m_mode
    /\ t.m_top = m_top
    /\ t.m_bottom = m_bottom
    /\ t.m_gmaps = m_gmaps
    /\ t.m_tabstop = m_tabstop

\* written to a parser in the Normal state, each introducer of intros
\* followed by a payload leaves the terminal as it is and the parser outside
\* Normal, and each terminator of terms then returns the parser to Normal
\* with the terminal still as it is
Collected(intros, terms) ==
    m_state = "ESnormal" /\ m_utf.more = 0
        => \A i \in intros, p \in Payloads :
              Let(write(T, i \o p), LAMBDA t1 :
                  /\ Uninterpreted(t1)
                  /\ t1.m_state # "ESnormal"
                  /\ \A s \in terms :
                        Let(write(t1, s), LAMBDA t2 :
                            Uninterpreted(t2) /\ t2.m_state = "ESnormal"))

\* C33: after each of the introducers SOS, DCS, PM and APC the following
\* bytes are collected and not interpreted: no cell, cursor or mode changes
\* until a String Terminator or ESC \ is seen, at which point the parser
\* state returns to Normal
StringCollecting == Collected(Introducers, Terminators)

\* the same for SOS alone
StringCollectingSOS == Collected({<<ESC, 88>>}, Terminators)

\* the same for SOS and ESC \ alone
StringCollectingSOSEscape == Collected({<<ESC, 88>>}, {<<ESC, 92>>})

\* after DCS, PM and APC the parser is in Normal and the next bytes are
\* interpreted: a letter is printed at the cursor
StringNotCollected ==
    m_state = "ESnormal" /\ m_utf.more = 0 /\ m_cursor.newx < m_width
        => \A i \in Introducers \ {<<ESC, 88>>} :
              /\ write(T, i).m_state = "ESnormal"
              /\ write(T, i \o <<97>>).m_screen = write(T, <<97>>).m_screen
              /\ write(T, i \o <<97>>).m_screen # m_screen
              /\ write(T, i \o <<97>>).m_cursor = write(T, <<97>>).m_cursor

(***************************************************************************)
(* Sets: designating character sets to G0..G3 with recognized and unknown  *)
(* designators, the locking and single shifts, and text.                   *)
(***************************************************************************)
MaxSets == 3

\* designators select_map_vt200 knows: 0 (DEC graphics), A, B, U
Known200 == {48, 65, 66, 85}
\* bytes it has no case for: z, 1
Unknown200 == {122, 49}
\* after "%": > (Greek) is known to select_map_vt500, z and 0 are not
Known500 == {62}
Unknown500 == {122, 48}
\* ESC ( ) * + designate G0, G1, G2, G3
Designator(g, bytes) == <<ESC, 40 + g>> \o bytes
\* SI, SO, ESC n, ESC o invoke G0, G1, G2, G3 as the left half
Invoke(g) ==
    CASE g = 0 -> <<SI>> [] g = 1 -> <<SO>> [] g = 2 -> <<ESC, 110>>
      [] OTHER -> <<ESC, 111>>

SetsDesignate ==
    \E g \in 0..3, d \in Known200 \cup Unknown200 :
        WriteN(Designator(g, <<d>>), MaxSets, FALSE)
SetsDesignate500 ==
    \E g \in 0..3, d \in Known500 \cup Unknown500 :
        WriteN(Designator(g, <<37, d>>), MaxSets, FALSE)
SetsInvoke == \E g \in 0..3 : WriteN(Invoke(g), MaxSets, FALSE)
\* ESC N: single shift 2
SetsSingleShift == WriteN(<<ESC, 78>>, MaxSets, FALSE)
\* q is a line drawing character in DEC graphics, # the pound sign in British
SetsType == \E c \in {113, 35} : WriteN(<<c>>, MaxSets, FALSE)

NextSets ==
    SetsDesignate \/ SetsDesignate500 \/ SetsInvoke \/ SetsSingleShift \/ SetsType

SpecSets == Init /\ [][NextSets]_vars

\* the parser is in Normal with no byte outstanding and no access outside a
\* container has happened
Idle == m_state = "ESnormal" /\ m_utf.more = 0 /\ ~oob

\* written to an idle parser, bytes leaves what keep names as it is and the
\* parser in Normal
Ignored(bytes, keep(_)) ==
    Let(write(T, bytes), LAMBDA t1 :
        /\ t1.m_state = "ESnormal"
        /\ keep(t1) = keep(T))

\* C34: in each SelectG0..SelectG3 state, and in its VT500 continuation
\* sub-state, a byte that is not a recognized character-set designator
\* leaves all four G0-G3 bindings and the active translation unchanged and
\* returns the parser to Normal, without indexing outside the character-set
\* table bank (checked while no single shift is pending, which the ESC of
\* the sequence would end)
UnknownDesignator ==
    Idle /\ m_shift < 0 => \A g \in 0..3 :
              /\ \A d \in Unknown200 :
                    Ignored(Designator(g, <<d>>),
                            LAMBDA t : <<t.m_gmaps, t.m_trans, t.oob>>)
              /\ \A d \in Unknown500 :
                    Ignored(Designator(g, <<37, d>>),
                            LAMBDA t : <<t.m_gmaps, t.m_trans, t.oob>>)

\* what holds of an unknown designator: the parser returns to Normal, the
\* active translation and the other three bindings stay; the designated
\* slot is bound to Latin-1 in the SelectG state and to what lies outside
\* the table bank in the VT500 sub-state
UnknownDesignatorBinds ==
    Idle /\ m_shift < 0 => \A g \in 0..3 :
              /\ \A d \in Unknown200 :
                    /\ Ignored(Designator(g, <<d>>),
                               LAMBDA t : <<[t.m_gmaps EXCEPT ![g + 1] = 0],
                                            t.m_trans, t.oob>>)
                    /\ write(T, Designator(g, <<d>>)).m_gmaps[g + 1] = "MAP_LATIN1"
              /\ \A d \in Unknown500 :
                    /\ Ignored(Designator(g, <<37, d>>),
                               LAMBDA t : <<[t.m_gmaps EXCEPT ![g + 1] = 0],
                                            t.m_trans>>)
                    /\ write(T, Designator(g, <<37, d>>)).oob

\* the slot g is the one invoked as the left half and no single shift is
\* pending
Invoked(g) == m_att.charset = g /\ m_trans = m_gmaps[g + 1] /\ m_shift < 0

\* the code of the cell the last character of the write went to
Printed(t) == t.m_screen[t.m_cursor.y + 1].cells[t.m_cursor.x + 1].code

\* in the states selected by where, a recognized designator for the invoked
\* slot, then between, then a "q" or a "#" prints the character the map
\* old or new(designator) gives
Designation(where(_), between(_), map(_)) ==
    Idle => \A g \in 0..3, d \in Known200, c \in {113, 35} :
              Invoked(g) /\ where(g)
                 => Printed(write(T, Designator(g, <<d>>) \o between(g) \o <<c>>))
                       = Translate(map(d), c)

\* C35: after a recognized designator rebinds the slot that is currently
\* invoked as the left half (ESC ( 0 while G0 is active), the very next
\* printable 7-bit byte is translated through the newly bound table,
\* without an intervening shift-in or shift-out
DesignationTakesEffect ==
    Designation(LAMBDA g : TRUE, LAMBDA g : << >>, select_map_vt200)

\* the next byte is translated through the table that was active before
DesignationDeferred ==
    Designation(LAMBDA g : TRUE, LAMBDA g : << >>, LAMBDA d : m_trans)

\* with the slot invoked again after the designation the new table is used
DesignationAfterInvoke ==
    Designation(LAMBDA g : TRUE, Invoke, select_map_vt200)

(***************************************************************************)
(* Feeds: the controls LF, VT and FF on a screen with text, with the       *)
(* cursor on every row, a scroll region, and LF-implies-CR set and reset.  *)
(***************************************************************************)
MaxFeeds == 4

FeedsFill == \E s \in {LineFill, <<97>>} : WriteN(s, MaxFeeds, TRUE)
FeedsRegion ==
    \E r \in {<<1, 2>>, <<2, 3>>} :
        WriteN(Csi(Number(r[1]) \o <<59>> \o Number(r[2]), 114), MaxFeeds, TRUE)
FeedsRow == \E r \in 1..Rows : WriteN(Csi(Number(r), 100), MaxFeeds, TRUE)
\* CSI 20 h and CSI 20 l: line feed implies carriage return, or not
FeedsNewline == \E final \in {104, 108} : WriteN(Csi(<<50, 48>>, final), MaxFeeds, TRUE)
FeedsLF == WriteN(<<LF>>, MaxFeeds, TRUE)
FeedsVT == WriteN(<<VT>>, MaxFeeds, TRUE)
FeedsFF == WriteN(<<FF>>, MaxFeeds, TRUE)

NextFeeds ==
    \/ FeedsFill \/ FeedsRegion \/ FeedsRow \/ FeedsNewline
    \/ FeedsLF \/ FeedsVT \/ FeedsFF

SpecFeeds == Init /\ [][NextFeeds]_vars

\* the step has the effect of a line feed on cursor, screen and scrollback
AsLineFeed ==
    Let(write(T, <<LF>>), LAMBDA t :
        /\ m_cursor' = t.m_cursor
        /\ m_screen' = t.m_screen
        /\ m_backlog' = t.m_backlog)

\* C36: in Normal state the VT control (0x0B) has exactly the effect of LF
\* (0x0A) on cursor, screen and scrollback in every reachable state: the
\* cursor moves down one row or the region scrolls up, with the carriage
\* return applied when LF-implies-CR is set
VerticalTab == [][FeedStep(<<VT>>) => AsLineFeed]_vars

\* the form feed is a line feed
FormFeed == [][FeedStep(<<FF>>) => AsLineFeed]_vars

\* what VT does: the carriage return when LF-implies-CR is set, then the
\* region scrolls down when the cursor is on its top row, otherwise the
\* cursor moves up one row, staying on row 0; the scrollback is unchanged
VerticalTabUp ==
    [][FeedStep(<<VT>>) =>
          /\ m_cursor'.newx = IF m_mode.deccr THEN 0 ELSE m_cursor.newx
          /\ m_backlog' = m_backlog
          /\ IF m_cursor.y = m_top
             THEN m_screen' = DownScrolled /\ m_cursor'.y = m_cursor.y
             ELSE m_screen' = m_screen /\ m_cursor'.y = Max(m_cursor.y - 1, 0)]_vars

(***************************************************************************)
(* Saves: save-cursor and restore-cursor among text, cursor positioning,   *)
(* renditions, mode changes, scroll regions and shifts.                    *)
(***************************************************************************)
MaxSaves == 3

\* ESC 7 and CSI s; ESC 8 and CSI u
SaveBytes == {<<ESC, 55>>, Csi(<< >>, 115)}
RestoreBytes == {<<ESC, 56>>, Csi(<< >>, 117)}
\* origin mode, autowrap and insert mode, set and reset
ModeBytes ==
    { Csi(<<63, 54>>, f) : f \in {104, 108} }
        \cup { Csi(<<63, 55>>, f) : f \in {104, 108} }
        \cup { Csi(<<52>>, f) : f \in {104, 108} }
\* input between a save and its restore: nothing, text, CSI 2;2 H, CSI 7 m,
\* a mode change, CSI 1;2 r, SO, ESC n
Between ==
    {<< >>, <<97>>, Csi(<<50, 59, 50>>, 72), Csi(<<55>>, 109),
     Csi(<<49, 59, 50>>, 114), <<SO>>, <<ESC, 110>>} \cup ModeBytes

SavesType == \E n \in 1..Cols : WriteN(Letters(n), MaxSaves, FALSE)
SavesCUP ==
    \E r \in {1, Rows}, c \in {1, Cols} :
        WriteN(Csi(Number(r) \o <<59>> \o Number(c), 72), MaxSaves, FALSE)
SavesSgr == \E p \in {48, 55} : WriteN(Csi(<<p>>, 109), MaxSaves, FALSE)
SavesMode == \E b \in ModeBytes : WriteN(b, MaxSaves, FALSE)
SavesRegion ==
    \E r \in {<<1, 2>>, <<2, 3>>} :
        WriteN(Csi(Number(r[1]) \o <<59>> \o Number(r[2]), 114), MaxSaves, FALSE)
SavesInvoke == \E g \in 0..2 : WriteN(Invoke(g), MaxSaves, FALSE)
SavesSave == \E s \in SaveBytes : WriteN(s, MaxSaves, FALSE)
SavesRestore == \E r \in RestoreBytes : WriteN(r, MaxSaves, FALSE)

NextSaves ==
    \/ SavesType \/ SavesCUP \/ SavesSgr \/ SavesMode \/ SavesRegion
    \/ SavesInvoke \/ SavesSave \/ SavesRestore

SpecSaves == Init /\ [][NextSaves]_vars

\* the place where the next character prints: row and pending column
Place(t) == <<t.m_cursor.y, t.m_cursor.newx>>
\* the SGR attributes: everything of m_att but the last code printed
Rendering(t) == [t.m_att EXCEPT !.code = 0, !.mark = 0]
\* the character-set state: the invoked slots and the table in use
CharacterSets(t) == <<t.m_att.charset, t.m_att.gl, t.m_att.gr, t.m_trans>>
\* the saved mode fields
SavedModes(t) ==
    <<t.m_mode.decom, t.m_mode.decawm, t.m_mode.decim, t.m_top, t.m_bottom>>

\* a save, any input of between, a restore: what keep names is afterwards
\* what it was at the save
Restored(between, keep(_)) ==
    Idle => \A s \in SaveBytes, b \in between, r \in RestoreBytes :
              keep(write(T, s \o b \o r)) = keep(T)

\* C37: restore-cursor (ESC 8 / CSI u) after save-cursor (ESC 7 / CSI s),
\* with any input in between, sets the cursor position, the SGR attributes,
\* the character-set state and the saved mode fields (origin mode, autowrap,
\* insert mode, scroll-region top and bottom) back to their values at the
\* time of the save
SaveRestoreUnit ==
    Restored(Between,
             LAMBDA t : <<Place(t), Rendering(t), CharacterSets(t), SavedModes(t)>>)

\* the SGR attributes and the invoked slots are restored
SaveRestoreAttributes ==
    Restored(Between,
             LAMBDA t : <<Rendering(t), t.m_att.charset, t.m_att.gl, t.m_att.gr>>)

\* the mode fields are not part of what is saved: after the restore they
\* are what the input in between left
ModesNotSaved ==
    Idle => \A s \in SaveBytes, b \in Between, r \in RestoreBytes :
              SavedModes(write(T, s \o b \o r)) = SavedModes(write(T, b))

\* the cursor goes to the committed column of the save, and to its row
\* when origin mode is off at the restore
RestoredPlace ==
    Idle => \A s \in SaveBytes, b \in Between, r \in RestoreBytes :
              Let(write(T, s \o b \o r), LAMBDA t :
                  /\ t.m_cursor.newx = qBound(0, m_cursor.x, m_width - 1)
                  /\ ~t.m_mode.decom => t.m_cursor.y = m_cursor.y)

\* the row, the committed and the pending column, and the attributes
Position(t) == <<t.m_cursor.y, t.m_cursor.x, t.m_cursor.newx, t.m_att>>

\* the cell the last character of the write went to
Lands(t) == <<t.m_cursor.y, t.m_cursor.x>>

\* in the states selected by where, a save immediately followed by a restore
\* leaves the cursor and the attributes as they are, and a letter written
\* after the pair lands where it lands without it
NoopWhere(where) ==
    Idle /\ where
        => \A s \in SaveBytes, r \in RestoreBytes :
              /\ Position(write(T, s \o r)) = Position(T)
              /\ Lands(write(T, s \o r \o <<97>>)) = Lands(write(T, <<97>>))

\* C38: in every reachable state, save-cursor immediately followed by
\* restore-cursor leaves the cursor row, the committed column, the pending
\* column (the place where the next character prints) and the current
\* attributes unchanged, so that text written after ESC 7 ESC 8 lands in
\* the same cells as without them
SaveRestoreNoop == NoopWhere(TRUE)

\* the same while the pending column is the committed column and the cursor
\* row is one origin mode allows
SaveRestoreNoopCommitted ==
    NoopWhere(/\ m_cursor.newx = m_cursor.x
              /\ m_mode.decom => m_cursor.y >= m_top /\ m_cursor.y < m_bottom)

(***************************************************************************)
(* Reports: the device attribute and device status requests and their      *)
(* variants among text, tabs, cursor positioning and other input.          *)
(***************************************************************************)
MaxReports == 4

\* CSI c, CSI 0 c, CSI 1 c, ESC Z
AttributeRequests == {Csi(<< >>, 99), Csi(<<48>>, 99), Csi(<<49>>, 99), <<ESC, 90>>}
\* CSI 5 n, CSI 6 n
StatusRequests == {Csi(<<53>>, 110), Csi(<<54>>, 110)}
\* CSI n, CSI 0 n, CSI 7 n: a status request with another parameter
OtherStatus == {Csi(<< >>, 110), Csi(<<48>>, 110), Csi(<<55>>, 110)}
\* CSI ? 5 n, CSI ? 6 n: the private-marker variants
PrivateStatus == {Csi(<<63, 53>>, 110), Csi(<<63, 54>>, 110)}
\* other input: LF, CR, CSI 2 J, CSI 7 m, ESC 7, ESC 8, ESC SP F (7 bit
\* controls in replies), CSI 2 ; 2 H
OtherInput ==
    {<<LF>>, <<CR>>, Csi(<<50>>, 74), Csi(<<55>>, 109), <<ESC, 55>>, <<ESC, 56>>,
     <<ESC, 32, 70>>, Csi(<<50, 59, 50>>, 72)}

ReportsType == \E n \in 1..Cols : WriteN(Letters(n), MaxReports, FALSE)
ReportsTab == WriteN(<<HT>>, MaxReports, FALSE)
ReportsOther == \E b \in OtherInput : WriteN(b, MaxReports, FALSE)
ReportsAttributes == \E q \in AttributeRequests : WriteN(q, MaxReports, FALSE)
ReportsStatus == \E q \in StatusRequests : WriteN(q, MaxReports, FALSE)
ReportsVariant ==
    \E q \in OtherStatus \cup PrivateStatus : WriteN(q, MaxReports, FALSE)

NextReports ==
    \/ ReportsType \/ ReportsTab \/ ReportsOther \/ ReportsAttributes
    \/ ReportsStatus \/ ReportsVariant

SpecReports == Init /\ [][NextReports]_vars

\* CSI r ; c final for the cursor row and the 0-based column col
PositionReply(col, final) ==
    <<ESC, 91>> \o Number(m_cursor.y + 1) \o <<59>> \o Number(col + 1) \o <<final>>

\* CSI 6 n is answered by exactly the position report for column col
CursorReport(col) ==
    FeedStep(Csi(<<54>>, 110)) => term_response' = <<PositionReply(col, 82)>>

\* C39: CSI 6 n emits exactly one reply CSI r ; c R where r is the cursor
\* row + 1 and c is the column at which the cursor is displayed (where the
\* next character will print, or the last column while a wrap is pending)
\* + 1, in every reachable state, including directly after printing a
\* character or after a horizontal tab
CursorPositionReport == [][CursorReport(Min(m_cursor.newx, m_width - 1))]_vars

\* the column reported is the committed column
CursorReportCommitted == [][CursorReport(m_cursor.x)]_vars

\* the claim while the pending column is the committed column
CursorReportSettled ==
    [][m_cursor.newx = m_cursor.x => CursorReport(m_cursor.newx)]_vars

\* the step writes one of the sequences of set to the idle parser
Fed(set) == m_state = "ESnormal" /\ m_utf.more = 0 /\ data' \in set

\* replies come from the sequences of requests only, one each, and the
\* sequences of silent give no reply and leave screen and cursor alone
Replies(requests, silent) ==
    /\ Fed(requests) => Len(term_response') = 1
    /\ call'.op = "write" /\ ~Fed(requests) => term_response' = << >>
    /\ Fed(silent) =>
          /\ term_response' = << >>
          /\ m_screen' = m_screen
          /\ m_cursor' = m_cursor

\* C40: bytes are emitted on the response channel only in answer to a
\* device-attribute request (CSI c, ESC Z) or a device-status request CSI 5 n
\* or CSI 6 n, exactly one reply per request; a status request with any
\* other parameter, a private-marker variant, and every other input produce
\* no output and leave the screen and cursor unchanged
RepliesOnlyToQueries ==
    [][Replies(AttributeRequests \cup StatusRequests,
               OtherStatus \cup PrivateStatus)]_vars

\* the same with the status requests of any parameter counted as requests
RepliesToAnyStatus ==
    [][Replies(AttributeRequests \cup StatusRequests \cup OtherStatus,
               PrivateStatus)]_vars

\* a status request with a parameter other than 5 and 6 is answered with
\* CSI r ; c H for the cursor row and committed column
OtherStatusReply ==
    [][Fed(OtherStatus) => term_response' = <<PositionReply(m_cursor.x, 72)>>]_vars

Next ==
    \/ NextMove
    \/ NextPrint
    \/ NextScroll
    \/ NextPalette
    \/ NextReset
    \/ NextUtf
    \/ NextErase
    \/ NextSgr
    \/ NextRegion
    \/ NextResize
    \/ NextParser
    \/ NextDims
    \/ NextStep
    \/ NextOrigin
    \/ NextEdge
    \/ NextMark
    \/ NextChars
    \/ NextMargins
    \/ NextLines
    \/ NextStrings
    \/ NextSets
    \/ NextFeeds
    \/ NextSaves
    \/ NextReports

Spec == Init /\ [][Next]_vars

=============================================================================
